---------------------------- MODULE Spec2Model ----------------------------
(***************************************************************************)
(* A model of the extraction-and-derivation core of the MEP take-off       *)
(* system (src/takeoff_system): the sheet classifier, the validator /      *)
(* accuracy scorer and the business-rule derivation engine.                *)
(*                                                                         *)
(* Python dicts are functions whose DOMAIN is the key set; strings that    *)
(* the code parses are sequences of one-character strings; Python floats   *)
(* are IEEE-754 binary64 values [s, m, e] (sign, 53-bit significand as a   *)
(* sequence of limbs, exponent), so that int(), round() and comparisons of *)
(* float products and quotients give what the interpreter gives.           *)
(***************************************************************************)
EXTENDS Integers, Sequences, FiniteSets, TLC

VARIABLES
    pc,                 \* which operation has run on the inputs below
    sheet_number,       \* classify_sheet_number: argument (sequence of characters)
    sheet_type,         \* classify_sheet_number: returned SheetType
    generated,          \* validate_counts: generated item -> count
    ground_truth,       \* validate_counts: reference item -> expected count
    results,            \* validate_counts: returned list of ValidationResult
    accuracy,           \* validate_counts: the local `accuracy` of each loop pass
    overall,            \* calculate_overall_accuracy: returned percentage
    report,             \* print_validation_report: tallies, printed overall, outcome
    ceiling_sensors,    \* derive_power_packs: argument
    wall_sensors,       \* derive_power_packs: argument
    data_jacks,         \* derive_cable_and_jhooks: argument
    config,             \* ProjectConfig: the ratios its derive_* methods read
    power_packs,        \* derive_power_packs: returned quantity
    cable_jhooks,       \* derive_cable_and_jhooks: returned (cable_feet, jhooks)
    counts,             \* derive_all_materials: device counts
    conduit_lengths,    \* derive_all_materials: None or size -> feet
    include_fittings,   \* derive_all_materials: flag
    include_consumables, \* derive_all_materials: flag
    include_wire,       \* derive_all_materials: flag
    derived,            \* derive_all_materials: returned dict
    omitted,            \* the flag a second, partial derivation switched off
    derived_partial,    \* derive_all_materials: returned dict of that second call
    engine_boxes,       \* derive_all_materials: the local `boxes` of a call in progress
    level_counts,       \* aggregate_level_counts: the DeviceCounts to merge
    merged_total,       \* the DeviceCounts the others are merged into
    partial,            \* a second DeviceCounts, merged into merged_total as one operand
    merged_into_total,  \* the operands merged into merged_total so far
    merged_into_partial, \* the operands merged into `partial` so far
    partial_merged,     \* whether `partial` has been merged into merged_total
    pdf_pages,          \* pdf.pages: the pages of the document, their words and text
    floor_count,        \* the floor_count argument / config.floor_count
    extracted,          \* the dict an extract_* function returned
    extract_raised,     \* whether the extract_* call raised
    drawings,           \* page.get_drawings(): the vector paths of a page
    width_mapping,      \* extract_conduit_lengths: width threshold -> conduit size
    vector_lengths,     \* extract_conduit_lengths: returned size -> feet
    page_num,           \* estimate_conduit_from_pdf_vectors: argument (0-indexed)
    pdf_doc,            \* the PDF: whether fitz can open it, and its pages' drawings
    use_pdf_vectors,    \* analyze_routing_complete: argument
    pdf_path_given,     \* analyze_routing_complete: whether pdf_path is set
    use_ai,             \* analyze_routing_complete: argument
    ai_e200,            \* what estimate_conduit_with_ai does for the E200 image
    ai_e201,            \* what estimate_conduit_with_ai does for the E201 image
    building_sqft,      \* analyze_routing_complete: argument
    combined_conduit,   \* analyze_routing_complete: combined_conduit.conduit_by_size
    estimated_method,   \* analyze_routing_complete: result.estimated_method
    ai_enabled,         \* analyze_routing_complete: the local use_ai
    consulted,          \* the length sources called so far, in call order
    routing,            \* analyze_routing_complete: the returned RoutingData
    image_paths,        \* classify_pages: argument (list of image paths)
    sheets,             \* classify_pages: returned list of Sheet
    sheet_map,          \* ProjectConfig.sheet_map: sheet code -> page index
    detected_map,       \* update_sheet_map: the argument of the last call
    map_updates,        \* how many update_sheet_map calls have been made
    sheet_query,        \* get_sheet_page: argument
    sheet_page,         \* get_sheet_page: returned page index
    floor_pages,        \* count_pendants_from_floor_plans: floor name -> page index
    pendants,           \* count_pendants_from_floor_plans: returned dict
    pendants_raised,    \* whether the count_pendants_from_floor_plans call raised
    rule_args,          \* derive_boxes / derive_plates: the arguments of a direct call
    rule_result         \* derive_boxes / derive_plates: returned dict

vars == <<pc, sheet_number, sheet_type, generated, ground_truth, results,
          accuracy, overall, report,
          ceiling_sensors, wall_sensors, data_jacks, config, power_packs,
          cable_jhooks,
          counts, conduit_lengths, include_fittings, include_consumables,
          include_wire, derived, omitted, derived_partial, engine_boxes,
          level_counts, merged_total, partial, merged_into_total, merged_into_partial,
          partial_merged, pdf_pages, floor_count, extracted, extract_raised,
          drawings, width_mapping, vector_lengths, page_num,
          pdf_doc, use_pdf_vectors, pdf_path_given, use_ai, ai_e200, ai_e201,
          building_sqft, combined_conduit, estimated_method, ai_enabled, consulted,
          routing,
          image_paths, sheets,
          sheet_map, detected_map, map_updates, sheet_query, sheet_page,
          floor_pages, pendants, pendants_raised,
          rule_args, rule_result>>

classifyVars == <<sheet_number, sheet_type>>
validateVars == <<generated, ground_truth, results, accuracy, overall, report>>
rulesVars == <<ceiling_sensors, wall_sensors, data_jacks, config, power_packs,
               cable_jhooks>>
deriveInputs == <<counts, conduit_lengths, include_fittings, include_consumables,
                  include_wire>>
deriveVars == <<deriveInputs, derived, omitted, derived_partial, engine_boxes>>
mergeVars == <<level_counts, merged_total, partial, merged_into_total, merged_into_partial,
               partial_merged>>
extractVars == <<pdf_pages, floor_count, extracted, extract_raised>>
vectorVars == <<drawings, width_mapping, vector_lengths, page_num>>
routingInputs == <<pdf_doc, use_pdf_vectors, pdf_path_given, use_ai, ai_e200, ai_e201,
                   building_sqft>>
routingVars == <<routingInputs, combined_conduit, estimated_method, ai_enabled, consulted,
                 routing>>

pagesVars == <<image_paths, sheets>>

sheetMapVars == <<sheet_map, detected_map, map_updates, sheet_query, sheet_page>>

pendantVars == <<floor_pages, pendants, pendants_raised>>

boxVars == <<rule_args, rule_result>>

\* the variables of the other components, left alone by a component's actions
nonClassifyVars == <<validateVars, rulesVars, deriveVars, mergeVars, extractVars, vectorVars, routingVars, pagesVars, sheetMapVars, pendantVars, boxVars>>
nonValidateVars == <<classifyVars, rulesVars, deriveVars, mergeVars, extractVars, vectorVars, routingVars, pagesVars, sheetMapVars, pendantVars, boxVars>>
nonRulesVars == <<classifyVars, validateVars, deriveVars, mergeVars, extractVars, vectorVars, routingVars, pagesVars, sheetMapVars, pendantVars, boxVars>>
nonDeriveVars == <<classifyVars, validateVars, rulesVars, mergeVars, extractVars, vectorVars, routingVars, pagesVars, sheetMapVars, pendantVars, boxVars>>
nonMergeVars == <<classifyVars, validateVars, rulesVars, deriveVars, extractVars, vectorVars, routingVars, pagesVars, sheetMapVars, pendantVars, boxVars>>
nonExtractVars == <<classifyVars, validateVars, rulesVars, deriveVars, mergeVars, vectorVars, routingVars, pagesVars, sheetMapVars, pendantVars, boxVars>>
nonVectorVars == <<classifyVars, validateVars, rulesVars, deriveVars, mergeVars, extractVars, routingVars, pagesVars, sheetMapVars, pendantVars, boxVars>>
nonRoutingVars == <<classifyVars, validateVars, rulesVars, deriveVars, mergeVars, extractVars, vectorVars, pagesVars, sheetMapVars, pendantVars, boxVars>>
nonPagesVars == <<classifyVars, validateVars, rulesVars, deriveVars, mergeVars, extractVars, vectorVars, routingVars, sheetMapVars, pendantVars, boxVars>>
nonSheetMapVars == <<classifyVars, validateVars, rulesVars, deriveVars, mergeVars, extractVars, vectorVars, routingVars, pagesVars, pendantVars, boxVars>>
nonPendantVars == <<classifyVars, validateVars, rulesVars, deriveVars, mergeVars, extractVars, vectorVars, routingVars, pagesVars, sheetMapVars, boxVars>>
nonBoxVars == <<classifyVars, validateVars, rulesVars, deriveVars, mergeVars, extractVars, vectorVars, routingVars, pagesVars, sheetMapVars, pendantVars>>

-----------------------------------------------------------------------------
(* Bounds of the model.                                                    *)

MaxCodeLen == 4
MaxLiteralLen == 3
MaxQty == 24
MaxSensors == 16
MaxJacks == 92
MaxCablePerJack == 10
MaxSpacing == 4
MaxKeynotes == 24
MaxFloorBoxes == 5
MaxFloors == 3

-----------------------------------------------------------------------------
(* Generic helpers: Python dict and arithmetic idioms.                      *)

Max(a, b) == IF a >= b THEN a ELSE b

Min(a, b) == IF a <= b THEN a ELSE b

Abs(x) == IF x < 0 THEN -x ELSE x

\* d.get(k, default)
Get(d, k, default) == IF k \in DOMAIN d THEN d[k] ELSE default

\* d.update(e): keys of e override keys of d
Update(d, e) ==
    [k \in (DOMAIN d) \cup (DOMAIN e) |-> IF k \in DOMAIN e THEN e[k] ELSE d[k]]

EmptyDict == [k \in {} |-> 0]

\* every dict with keys among K and values in V
Dicts(K, V) == UNION {[S -> V] : S \in SUBSET K}

\* n // d on ints, d > 0: the floor of n/d
FloorDiv(n, d) == n \div d

\* Arbitrary-size naturals: little-endian sequences of limbs below LimbBase,
\* without leading zero limbs (<<>> is 0)
LimbBase == 2^15

RECURSIVE BigOfInt(_)
BigOfInt(n) == IF n = 0 THEN <<>> ELSE <<n % LimbBase>> \o BigOfInt(n \div LimbBase)

RECURSIVE BigToInt(_)
BigToInt(a) == IF a = <<>> THEN 0 ELSE Head(a) + LimbBase * BigToInt(Tail(a))

\* limb i of a, 0 beyond its length
Limb(a, i) == IF i >= 1 /\ i <= Len(a) THEN a[i] ELSE 0

RECURSIVE BigTrim(_)
BigTrim(a) ==
    IF a # <<>> /\ a[Len(a)] = 0 THEN BigTrim(SubSeq(a, 1, Len(a) - 1)) ELSE a

\* a * s + carry for 0 <= s <= LimbBase
RECURSIVE BigTimes(_, _, _)
BigTimes(a, s, carry) ==
    IF a = <<>> THEN BigOfInt(carry)
    ELSE LET v == Head(a) * s + carry
         IN  <<v % LimbBase>> \o BigTimes(Tail(a), s, v \div LimbBase)

RECURSIVE BigPlus(_, _, _)
BigPlus(a, b, carry) ==
    IF a = <<>> /\ b = <<>> THEN BigOfInt(carry)
    ELSE LET v == (IF a = <<>> THEN 0 ELSE Head(a)) + (IF b = <<>> THEN 0 ELSE Head(b)) + carry
         IN  <<v % LimbBase>> \o BigPlus(IF a = <<>> THEN a ELSE Tail(a),
                                         IF b = <<>> THEN b ELSE Tail(b), v \div LimbBase)

\* a - b - borrow for a >= b + borrow, leading zeros kept
RECURSIVE BigMinusRaw(_, _, _)
BigMinusRaw(a, b, borrow) ==
    IF a = <<>> THEN <<>>
    ELSE LET v == Head(a) - (IF b = <<>> THEN 0 ELSE Head(b)) - borrow
         IN  <<v % LimbBase>> \o BigMinusRaw(Tail(a), IF b = <<>> THEN b ELSE Tail(b),
                                             IF v < 0 THEN 1 ELSE 0)

BigMinus(a, b) == BigTrim(BigMinusRaw(a, b, 0))

RECURSIVE BigMul(_, _)
BigMul(a, b) ==
    IF a = <<>> \/ b = <<>> THEN <<>>
    ELSE BigTrim(BigPlus(BigTimes(a, Head(b), 0), <<0>> \o BigMul(a, Tail(b)), 0))

RECURSIVE BigLess(_, _)
BigLess(a, b) ==
    IF Len(a) # Len(b) THEN Len(a) < Len(b)
    ELSE IF a = <<>> THEN FALSE
    ELSE IF a[Len(a)] # b[Len(b)] THEN a[Len(a)] < b[Len(b)]
    ELSE BigLess(BigTrim(SubSeq(a, 1, Len(a) - 1)), BigTrim(SubSeq(b, 1, Len(b) - 1)))

\* long division of limbs i..1 of a by c, from the remainder and the
\* quotient limbs of the limbs above i
RECURSIVE BigDivModFrom(_, _, _, _, _)
BigDivModFrom(a, c, i, rem, quot) ==
    IF i = 0 THEN [quot |-> quot, rem |-> rem]
    ELSE BigDivModFrom(a, c, i - 1, (rem * LimbBase + a[i]) % c,
                       <<(rem * LimbBase + a[i]) \div c>> \o quot)

\* quotient and remainder of a by 1 <= c < 2^16
BigDivMod(a, c) ==
    IF c = 1 THEN [quot |-> a, rem |-> 0]
    ELSE BigDivModFrom(a, c, Len(a), 0, <<>>)

RECURSIVE BitLength(_)
BitLength(n) == IF n = 0 THEN 0 ELSE 1 + BitLength(n \div 2)

BigBits(a) == IF a = <<>> THEN 0 ELSE 15 * (Len(a) - 1) + BitLength(a[Len(a)])

\* limb i of a * 2^(15 * w + r) for r < 15: the low bits come from limb
\* i - w of a, the high bits from limb i - w - 1
ShlLimb(a, w, r, i) ==
    ((Limb(a, i - w) * 2^r) % LimbBase) + ((Limb(a, i - w - 1) * 2^r) \div LimbBase)

\* a * 2^k
BigShl(a, k) ==
    BigTrim([i \in 1..(Len(a) + k \div 15 + 1) |-> ShlLimb(a, k \div 15, k % 15, i)])

\* limb i of floor(a / 2^(15 * w + r)) for r < 15
ShrLimb(a, w, r, i) ==
    (Limb(a, i + w) \div 2^r) + (Limb(a, i + w + 1) % 2^r) * 2^(15 - r)

\* floor(a / 2^k)
BigShr(a, k) ==
    BigTrim([i \in 1..Max(0, Len(a) - k \div 15) |-> ShrLimb(a, k \div 15, k % 15, i)])

\* bit j (from 0) of a, and whether a bit below bit j is set
BigBit(a, j) ==
    IF j \div 15 >= Len(a) THEN 0 ELSE (a[j \div 15 + 1] \div 2^(j % 15)) % 2

BigBitsBelow(a, j) ==
    \/ \E i \in 1..Min(j \div 15, Len(a)) : a[i] # 0
    \/ j \div 15 < Len(a) /\ a[j \div 15 + 1] % 2^(j % 15) # 0

\* m0 or m0 + 1: m0 is the whole part of a quotient whose fraction starts
\* with the bit `half` and has further bits set iff `rest`
BigRoundPick(m0, half, rest) ==
    IF half = 1 /\ (rest \/ (m0 # <<>> /\ m0[1] % 2 = 1))
    THEN BigTrim(BigPlus(m0, <<1>>, 0)) ELSE m0

\* round-half-even of (q + t) / 2^k for k >= 1, where 0 <= t < 1 and sticky
\* tells whether t > 0
BigRoundShr(q, k, sticky) ==
    BigRoundPick(BigShr(q, k), BigBit(q, k - 1), sticky \/ BigBitsBelow(q, k - 1))

\* An IEEE-754 double is held as [s, m, e], the exact value s * m * 2^e with
\* the sign s in {1, -1} and 2^52 <= m < 2^53; zero is [1, <<>>, 0] (the
\* sign of a zero is not kept).  DoubleRound is the round-to-nearest-even
\* every float operation ends with: the double nearest to s * (p / c) * 2^e,
\* for 1 <= c < 2^16.  Subnormal and infinite results are out of its range.
\* (each step hands its result to the next as an argument)
DoubleCarry(s, m, e) ==
    IF BigBits(m) > 53 THEN [s |-> s, m |-> BigShr(m, 1), e |-> e + 1]
    ELSE [s |-> s, m |-> m, e |-> e]

DoubleRoundTo53(s, q, k, sticky, e) == DoubleCarry(s, BigRoundShr(q, k, sticky), e + k)

DoubleRoundQuotient(s, dm, e) ==
    DoubleRoundTo53(s, BigTrim(dm.quot), BigBits(BigTrim(dm.quot)) - 53, dm.rem # 0, e)

DoubleRoundShifted(s, p, c, e, sh) == DoubleRoundQuotient(s, BigDivMod(BigShl(p, sh), c), e - sh)

DoubleRound(s, p, c, e) ==
    IF p = <<>> THEN [s |-> 1, m |-> <<>>, e |-> 0]
    ELSE DoubleRoundShifted(s, p, c, e, Max(0, 72 - BigBits(p)))

\* float(n) of an int n: exact, |n| < 2^53
DoubleOfInt(n) ==
    IF n = 0 THEN [s |-> 1, m |-> <<>>, e |-> 0]
    ELSE [s |-> IF n < 0 THEN -1 ELSE 1,
          m |-> BigShl(BigOfInt(Abs(n)), 53 - BitLength(Abs(n))),
          e |-> BitLength(Abs(n)) - 53]

\* the float written num/den in decimal (0.74 is 74/100), and the true
\* division num / den of two ints, den # 0
DoubleOfRatio(num, den) ==
    DoubleRound(IF (num < 0) # (den < 0) THEN -1 ELSE 1, BigOfInt(Abs(num)), Abs(den), 0)

\* x * y
DoubleTimes(x, y) == DoubleRound(x.s * y.s, BigMul(x.m, y.m), 1, x.e + y.e)

\* x / c for an int c > 0
DoubleOver(x, c) == DoubleRound(x.s, x.m, c, x.e)

\* x + y
\* a and b are the two significands at the common exponent e
DoublePlusAligned(sx, a, sy, b, e) ==
    DoubleRound(IF sx = sy \/ ~BigLess(a, b) THEN sx ELSE sy,
                IF sx = sy THEN BigTrim(BigPlus(a, b, 0))
                ELSE IF BigLess(a, b) THEN BigMinus(b, a) ELSE BigMinus(a, b),
                1, e)

DoublePlus(x, y) ==
    IF x.m = <<>> THEN y
    ELSE IF y.m = <<>> THEN x
    ELSE DoublePlusAligned(x.s, BigShl(x.m, x.e - Min(x.e, y.e)),
                           y.s, BigShl(y.m, y.e - Min(x.e, y.e)), Min(x.e, y.e))

\* x - y
DoubleMinus(x, y) ==
    IF y.m = <<>> THEN x ELSE DoublePlus(x, [s |-> -y.s, m |-> y.m, e |-> y.e])

\* x < y
IsNegative(d) == d.m # <<>> /\ d.s = -1

DoubleLess(x, y) == IsNegative(DoubleMinus(x, y))

\* int(x): truncation toward zero
DoubleTrunc(x) ==
    x.s * (IF x.e >= 0 THEN BigToInt(BigShl(x.m, x.e)) ELSE BigToInt(BigShr(x.m, -x.e)))

\* round(x, 1) in tenths: the exact value of x rounded to one decimal, ties
\* to even
RoundScaled(s, p, e) ==
    s * (IF e >= 0 THEN BigToInt(BigShl(p, e)) ELSE BigToInt(BigRoundShr(p, -e, FALSE)))

DoubleRoundTenths(x) == RoundScaled(x.s, BigTrim(BigTimes(x.m, 10, 0)), x.e)

\* int(x * r) for an int x and the float r written num/den in decimal
IntOfProduct(x, num, den) ==
    DoubleTrunc(DoubleTimes(DoubleOfInt(x), DoubleOfRatio(num, den)))

\* int(x / c) for ints x and c > 0
IntOfQuotient(x, c) == DoubleTrunc(DoubleOfRatio(x, c))

\* |x - num/den| <= 2^-40 for a double x >= 0 and ints num >= 0, den > 0:
\* x is num/den up to the rounding of the float operations that produced it
DoubleNear(x, num, den) ==
    LET k == Max(0, -x.e)
        a == BigMul(BigShl(x.m, Max(0, x.e)), BigOfInt(den))
        b == BigShl(BigOfInt(num), k)
        diff == IF BigLess(a, b) THEN BigMinus(b, a) ELSE BigMinus(a, b)
    IN  x.s = 1 /\ ~BigLess(BigShl(BigOfInt(den), k), BigShl(diff, 40))

-----------------------------------------------------------------------------
(* Sheet Classifier: pdf_processor.classify_sheet_number                    *)

Letters == {"E", "T"}
Digits  == {"0", "1", "2", "3", "4", "5", "6", "7", "8", "9"}
Alphabet == Letters \cup Digits

DigitValue(c) ==
    CASE c = "0" -> 0 [] c = "1" -> 1 [] c = "2" -> 2 [] c = "3" -> 3
      [] c = "4" -> 4 [] c = "5" -> 5 [] c = "6" -> 6 [] c = "7" -> 7
      [] c = "8" -> 8 [] c = "9" -> 9

\* A character is a string of length one; a string can hold the characters
\* U+0000..U+00FF, and the text operators below do what Python does on those.
\* str.isspace(): space, \t, \n, \r, \f, and U+000B, U+001C..U+001F, U+0085
\* and U+00A0, which are written as themselves
Whitespace == {" ", "\t", "\n", "\r", "\f", "", "", "", "", "", "", " "}

\* the white space int() skips around its literal: not U+001C..U+001F
IntWhitespace == Whitespace \ {"", "", "", ""}

RECURSIVE StripChars(_, _)
\* s without the characters of W at its two ends
StripChars(s, W) ==
    IF s = <<>> THEN s
    ELSE IF Head(s) \in W THEN StripChars(Tail(s), W)
    ELSE IF s[Len(s)] \in W THEN StripChars(SubSeq(s, 1, Len(s) - 1), W)
    ELSE s

\* the argument of int() without the white space around it
StripWhitespace(s) == StripChars(s, IntWhitespace)

\* the stripped argument of int() and the same without its sign
Signed(s) == StripWhitespace(s)
Unsigned(s) ==
    LET t == Signed(s)
    IN  IF t # <<>> /\ Head(t) \in {"-", "+"} THEN Tail(t) ELSE t

\* digits, with single underscores between digits
DigitsWithUnderscores(t) ==
    /\ Len(t) >= 1
    /\ t[1] \in Digits /\ t[Len(t)] \in Digits
    /\ \A i \in 1..Len(t) : t[i] \in Digits \cup {"_"}
    /\ \A i \in 1..(Len(t) - 1) : ~(t[i] = "_" /\ t[i + 1] = "_")

\* int(s) does not raise ValueError: s is, between whitespace, an optional
\* sign and a decimal literal
IntParses(s) == DigitsWithUnderscores(Unsigned(s))

RECURSIVE DecimalValue(_)
DecimalValue(t) ==
    IF Len(t) = 0 THEN 0
    ELSE IF t[Len(t)] = "_" THEN DecimalValue(SubSeq(t, 1, Len(t) - 1))
    ELSE 10 * DecimalValue(SubSeq(t, 1, Len(t) - 1)) + DigitValue(t[Len(t)])

\* int(s) when it parses
IntOf(s) ==
    IF Head(Signed(s)) = "-" THEN -DecimalValue(Unsigned(s))
    ELSE DecimalValue(Unsigned(s))

RoleOfNumber_ClosedRanges(num) ==
    IF num = 100 THEN "DEMO"
    ELSE IF 200 <= num /\ num <= 600 THEN "NEW"
    ELSE IF num <= 100 THEN "LEGEND"
    ELSE IF 600 <= num /\ num <= 800 THEN "SCHEDULE"
    ELSE "REFERENCE"

\* the if/elif chain on the parsed number
RoleOfNumber(num) ==
    IF num = 100 THEN "DEMO"
    ELSE IF 200 <= num /\ num < 600 THEN "NEW"
    ELSE IF num < 100 THEN "LEGEND"
    ELSE IF 600 <= num /\ num < 800 THEN "SCHEDULE"
    ELSE "REFERENCE"

classify_sheet_number(s) ==
    IF Len(s) < 2 THEN "REFERENCE"
    ELSE IF ~IntParses(Tail(s)) THEN "REFERENCE"
    ELSE RoleOfNumber(IntOf(Tail(s)))

\* codes whose tail carries a sign, white space (U+000B and U+00A0, which
\* int() skips, and U+001C, which it does not) or an underscore
LiteralChars == {"-", "+", " ", "\t", "", " ", "", "_", "0", "5"}
LiteralSheetNumbers ==
    {<<l>> \o t : l \in Letters,
                  t \in UNION {[1..n -> LiteralChars] : n \in 1..MaxLiteralLen}}

SheetNumbers == UNION {[1..n -> Alphabet] : n \in 0..MaxCodeLen} \cup LiteralSheetNumbers

ClassifySheet ==
    /\ pc = "start"
    /\ sheet_type' = classify_sheet_number(sheet_number)
    /\ pc' = "classified"
    /\ UNCHANGED <<sheet_number, nonClassifyVars>>

\* classifying the same code a second time
ReclassifySheet ==
    /\ pc = "classified"
    /\ sheet_type' = classify_sheet_number(sheet_number)
    /\ pc' = "reclassified"
    /\ UNCHANGED <<sheet_number, nonClassifyVars>>

\* IVCC_SHEET_MAP: page -> (sheet code, title, role)
SheetEntry(code, title, type) ==
    [sheet_number |-> code, title |-> title, sheet_type |-> type]

IVCC_SHEET_MAP ==
    <<SheetEntry(<<"E", "0", "0", "0">>, "ELECTRICAL OVERSHEET", "LEGEND"),
      SheetEntry(<<"E", "1", "0", "0">>, "FLOOR PLANS - ELECTRICAL DEMOLITION", "DEMO"),
      SheetEntry(<<"E", "2", "0", "0">>, "FLOOR PLANS - LIGHTING", "NEW"),
      SheetEntry(<<"E", "2", "0", "1">>, "FLOOR PLANS - POWER/SYSTEMS", "NEW"),
      SheetEntry(<<"E", "6", "0", "0">>, "ELECTRICAL SCHEDULES", "SCHEDULE"),
      SheetEntry(<<"E", "7", "0", "0">>, "PANEL SCHEDULES", "SCHEDULE"),
      SheetEntry(<<"T", "0", "0", "0">>, "TECHNOLOGY OVERSHEET", "LEGEND"),
      SheetEntry(<<"T", "1", "0", "0">>, "FLOOR PLANS - TECHNOLOGY DEMOLITION", "DEMO"),
      SheetEntry(<<"T", "2", "0", "0">>, "FLOOR PLANS - TECHNOLOGY", "NEW"),
      SheetEntry(<<"T", "3", "0", "0">>, "TECHNOLOGY DETAILS & RISER DIAGRAMS", "REFERENCE"),
      SheetEntry(<<"T", "4", "0", "0">>, "TECHNOLOGY SCHEDULES", "SCHEDULE")>>

\* f"{i}" for i >= 0
DigitChar(d) ==
    CASE d = 0 -> "0" [] d = 1 -> "1" [] d = 2 -> "2" [] d = 3 -> "3"
      [] d = 4 -> "4" [] d = 5 -> "5" [] d = 6 -> "6" [] d = 7 -> "7"
      [] d = 8 -> "8" [] d = 9 -> "9"

RECURSIVE FormatInt(_)
FormatInt(i) ==
    IF i < 10 THEN <<DigitChar(i)>>
    ELSE FormatInt(i \div 10) \o <<DigitChar(i % 10)>>

\* f"UNKNOWN-{i}"
UnknownSheetNumber(i) == <<"U", "N", "K", "N", "O", "W", "N", "-">> \o FormatInt(i)

\* one pass of the loop of classify_pages: the Sheet of page i
SheetOfPage(i, image_path) ==
    LET entry == IF i \in DOMAIN IVCC_SHEET_MAP THEN IVCC_SHEET_MAP[i]
                 ELSE SheetEntry(UnknownSheetNumber(i), "Unknown Sheet", "REFERENCE")
    IN  [page_number |-> i, sheet_number |-> entry.sheet_number,
         sheet_type |-> entry.sheet_type, title |-> entry.title,
         image_path |-> image_path]

classify_pages(paths) == [i \in 1..Len(paths) |-> SheetOfPage(i, paths[i])]

ClassifyPages ==
    /\ pc = "start"
    /\ sheets' = classify_pages(image_paths)
    /\ pc' = "pages_classified"
    /\ UNCHANGED <<image_paths, nonPagesVars>>

-----------------------------------------------------------------------------
(* Validator: validator.validate_counts, calculate_overall_accuracy,        *)
(* print_validation_report                                                  *)

\* Item names of the drawn snapshots
Items == {"Cat 6 Jack", "Duplex Receptacle", "F2"}

\* names that are not keys of the ground truth, and a key that sorts
\* between them
OtherItems == {"Zebra", "F3", "F2", "apple"}

\* Quantities of the single-item runs: a full small range and the points of
\* the spec's scenarios (92/92, 92/90, 23/0), of the first expected value
\* at which a miss rounds to 80.0 (404/323) and of an accuracy whose float
\* lies just below a rounding tie (80/3 is 3.749999999999998).
Quantities == (0..MaxQty) \cup {80, 90, 92, 323, 404}

\* Quantities of the multi-item runs: they produce all four statuses.
SmallQuantities == {0, 2, 20, 24}

\* ground_truth.ALL_GROUND_TRUTH: the counted and the derived quantities
ALL_GROUND_TRUTH ==
    ("F2" :> 6) @@
    ("F3" :> 10) @@
    ("F4" :> 10) @@
    ("F4E" :> 2) @@
    ("F5" :> 8) @@
    ("F7" :> 3) @@
    ("F7E" :> 2) @@
    ("F8" :> 1) @@
    ("F9" :> 6) @@
    ("X1" :> 5) @@
    ("X2" :> 1) @@
    ("4' Linear LED" :> 16) @@
    ("6' Linear LED" :> 12) @@
    ("8' Linear LED" :> 8) @@
    ("10' Linear LED" :> 14) @@
    ("16' Linear LED" :> 2) @@
    ("F10-22" :> 3) @@
    ("F10-30" :> 2) @@
    ("F11-4X4" :> 4) @@
    ("F11-6X6" :> 3) @@
    ("F11-8X8" :> 2) @@
    ("F11-10X10" :> 3) @@
    ("F11-16X10" :> 1) @@
    ("Ceiling Occupancy Sensor" :> 16) @@
    ("Wall Occupancy Sensor" :> 3) @@
    ("Daylight Sensor" :> 3) @@
    ("Wireless Dimmer" :> 10) @@
    ("Power Pack" :> 14) @@
    ("Duplex Receptacle" :> 37) @@
    ("GFI Receptacle" :> 5) @@
    ("SP Switch" :> 3) @@
    ("3-Way Switch" :> 2) @@
    ("20A 1P Breaker" :> 14) @@
    ("30A 2P Breaker" :> 1) @@
    ("30A/2P Safety Switch 240V" :> 1) @@
    ("30A/3P Safety Switch 600V" :> 1) @@
    ("100A/3P Safety Switch 600V" :> 1) @@
    ("Demo 2'x4' Recessed" :> 7) @@
    ("Demo 2'x2' Recessed" :> 12) @@
    ("Demo Downlight" :> 12) @@
    ("Demo 4' Strip" :> 1) @@
    ("Demo 8' Strip" :> 27) @@
    ("Demo Exit" :> 2) @@
    ("Demo Receptacle" :> 13) @@
    ("Demo Floor Box" :> 23) @@
    ("Demo Switch" :> 2) @@
    ("Cat 6 Jack" :> 92) @@
    ("Cat 6 Cable (ft)" :> 920) @@
    ("J-Hook" :> 230) @@
    ("3/4\" EMT" :> 3773) @@
    ("1\" EMT" :> 790) @@
    ("1-1/4\" EMT" :> 150) @@
    ("3/4\" EMT Connector" :> 396) @@
    ("3/4\" EMT Coupling" :> 347) @@
    ("3/4\" Insulating Bushing" :> 396) @@
    ("3/4\" 1-Hole Strap" :> 347) @@
    ("3/4\" Unistrut Strap" :> 117) @@
    ("1\" EMT Connector" :> 83) @@
    ("1\" EMT Coupling" :> 73) @@
    ("1\" Insulating Bushing" :> 83) @@
    ("1\" 1-Hole Strap" :> 73) @@
    ("1\" Unistrut Strap" :> 24) @@
    ("4\" Square Box w/bracket" :> 52) @@
    ("4\" Square Box" :> 19) @@
    ("4-11/16\" Square Box w/bracket" :> 89) @@
    ("4-11/16\" Square Box" :> 14) @@
    ("4\" Square Box 2-1/8\" deep" :> 10) @@
    ("4\" Square-1G Plaster Ring" :> 57) @@
    ("4\" Square-2G Plaster Ring" :> 8) @@
    ("4\" Square-3/0 Plaster Ring" :> 19) @@
    ("4-11/16\"-1G Plaster Ring" :> 89) @@
    ("Duplex Plate" :> 37) @@
    ("Decora Plate" :> 15) @@
    ("Switch Plate" :> 5) @@
    ("Blank Cover" :> 25) @@
    ("Blank Cover w/KO" :> 8) @@
    ("#12 THHN Black" :> 4150) @@
    ("#12 THHN White" :> 3773) @@
    ("#12 THHN Green" :> 3773) @@
    ("#10 THHN Black" :> 948) @@
    ("#10 THHN White" :> 869) @@
    ("#10 THHN Green" :> 869) @@
    ("#8 THHN Black" :> 195) @@
    ("#8 THHN White" :> 180) @@
    ("#8 THHN Green" :> 180) @@
    ("Red Wirenut" :> 600) @@
    ("Yellow Wirenut" :> 300) @@
    ("Ground Screw" :> 184) @@
    ("Pan Head Tapping Screw #8" :> 600) @@
    ("Poly Pull Line (ft)" :> 2282) @@
    ("Black Tape" :> 3) @@
    ("Red Phase Tape" :> 2) @@
    ("Blue Phase Tape" :> 2) @@
    ("Fixture Whip" :> 7) @@
    ("Pendant/Cable" :> 208) @@
    ("Aircraft Cable Kit" :> 72) @@
    ("Canopy Kit" :> 18)

\* the default of the ground_truth parameter
None == [none |-> TRUE]

\* if ground_truth is None: ground_truth = ALL_GROUND_TRUTH
GroundTruthUsed(gt) == IF gt = None THEN ALL_GROUND_TRUTH ELSE gt

AllItems_GroundTruthOnly(gen, gt) == DOMAIN gt

\* all_items = set(generated.keys()) | set(ground_truth.keys())
AllItems(gen, gt) == (DOMAIN gen) \cup (DOMAIN gt)

\* the printable ASCII characters in code-point order: 32..95 and 97..126
AsciiLow == " !\"#$%&'()*+,-./0123456789:;<=>?@ABCDEFGHIJKLMNOPQRSTUVWXYZ[\\]^_"
AsciiHigh == "abcdefghijklmnopqrstuvwxyz{|}~"

Position(c, chars) == CHOOSE i \in 1..Len(chars) : SubSeq(chars, i, i) = c

\* ord(c)
CodePoint(c) ==
    IF \E i \in 1..Len(AsciiLow) : SubSeq(AsciiLow, i, i) = c
    THEN 31 + Position(c, AsciiLow)
    ELSE 96 + Position(c, AsciiHigh)

RECURSIVE StringLess(_, _)
\* a < b on str: by the first differing code point, a proper prefix first
StringLess(a, b) ==
    IF b = "" THEN FALSE
    ELSE IF a = "" THEN TRUE
    ELSE IF Head(a) = Head(b) THEN StringLess(Tail(a), Tail(b))
    ELSE CodePoint(Head(a)) < CodePoint(Head(b))

\* the number of items of S that sort before x
Rank(x, S) == Cardinality({y \in S : StringLess(y, x)})

\* the items of a set of <<rank, item>> pairs, by rank
ByRank(R) == [i \in 1..Cardinality(R) |-> (CHOOSE p \in R : p[1] = i - 1)[2]]

\* sorted(all_items): the items in ascending order
SortedItems(S) == ByRank({<<Rank(x, S), x>> : x \in S})

\* (1 - abs(difference) / expected) * 100
AccuracyFloat(expected, actual) ==
    DoubleTimes(DoubleMinus(DoubleOfInt(1),
                            DoubleOfRatio(Abs(actual - expected), expected)),
                DoubleOfInt(100))

Accuracy_NoClamp(expected, actual) ==
    IF expected = 0
    THEN (IF actual = 0 THEN DoubleOfInt(100) ELSE DoubleOfInt(0))
    ELSE AccuracyFloat(expected, actual)

\* the local `accuracy`: 100.0 or 0.0 when expected is 0, else
\* max(0, (1 - abs(difference) / expected) * 100)
Accuracy(expected, actual) ==
    IF expected = 0
    THEN (IF actual = 0 THEN DoubleOfInt(100) ELSE DoubleOfInt(0))
    ELSE LET acc == AccuracyFloat(expected, actual)
         IN  IF DoubleLess(DoubleOfInt(0), acc) THEN acc ELSE DoubleOfInt(0)

\* the status if/elif chain
Status(expected, actual, acc) ==
    IF actual = expected THEN "exact"
    ELSE IF Abs(actual - expected) <= 2 THEN "close"
    ELSE IF ~DoubleLess(acc, DoubleOfInt(80)) THEN "acceptable"
    ELSE "miss"

\* one pass of the loop body: the ValidationResult appended for `item`;
\* accuracy_pct is held in tenths of a percent (round(accuracy, 1) * 10)
ValidationResult(item, gen, gt) ==
    LET expected == Get(gt, item, 0)
        actual   == Get(gen, item, 0)
        acc      == Accuracy(expected, actual)
    IN  [item         |-> item,
         expected     |-> expected,
         actual       |-> actual,
         difference   |-> actual - expected,
         accuracy_pct |-> DoubleRoundTenths(acc),
         status       |-> Status(expected, actual, acc)]

validate_counts(gen, ground_truth_arg) ==
    LET gt == GroundTruthUsed(ground_truth_arg)
        order == SortedItems(AllItems(gen, gt))
    IN  [i \in 1..Len(order) |-> ValidationResult(order[i], gen, gt)]

\* the value of the local `accuracy` in each pass of the loop
LocalAccuracies(gen, ground_truth_arg) ==
    LET gt == GroundTruthUsed(ground_truth_arg)
        order == SortedItems(AllItems(gen, gt))
    IN  [i \in 1..Len(order) |->
            Accuracy(Get(gt, order[i], 0), Get(gen, order[i], 0))]

CountsAsAccurate_WithAcceptable(status) == status \in {"exact", "close", "acceptable"}

\* r.status in ("exact", "close")
CountsAsAccurate(status) == status \in {"exact", "close"}

StatusNames == {"exact", "close", "acceptable", "miss"}

\* sum(1 for r in results if r.status in S)
CountStatus(rs, S) == Cardinality({i \in 1..Len(rs) : rs[i].status \in S})

\* (accurate / len(results)) * 100, and 0.0 for an empty list
calculate_overall_accuracy(rs) ==
    IF Len(rs) = 0 THEN DoubleOfInt(0)
    ELSE DoubleTimes(DoubleOfRatio(CountStatus(rs, {s \in StatusNames :
                                                       CountsAsAccurate(s)}),
                                   Len(rs)),
                     DoubleOfInt(100))

\* the tallies of the report loop and the overall accuracy of the summary,
\* (exact + close)/total*100; the summary divides by total = len(results)
\* and raises on an empty list
print_validation_report(rs) ==
    LET exact      == CountStatus(rs, {"exact"})
        close      == CountStatus(rs, {"close"})
        acceptable == CountStatus(rs, {"acceptable"})
        total      == Len(rs)
        miss       == total - exact - close - acceptable
    IN  [exact |-> exact, close |-> close, acceptable |-> acceptable, miss |-> miss,
         raised  |-> (total = 0),
         overall |-> IF total = 0 THEN DoubleOfInt(0)
                     ELSE DoubleTimes(DoubleOfRatio(exact + close, total),
                                      DoubleOfInt(100))]

NoReport == [exact |-> 0, close |-> 0, acceptable |-> 0, miss |-> 0,
             raised |-> FALSE, overall |-> DoubleOfInt(0)]

ValidateCounts ==
    /\ pc = "start"
    /\ results' = validate_counts(generated, ground_truth)
    /\ accuracy' = LocalAccuracies(generated, ground_truth)
    /\ pc' = "validated"
    /\ UNCHANGED <<generated, ground_truth, overall, report, nonValidateVars>>

CalculateOverallAccuracy ==
    /\ pc = "validated"
    /\ overall' = calculate_overall_accuracy(results)
    /\ pc' = "scored"
    /\ UNCHANGED <<generated, ground_truth, results, accuracy, report, nonValidateVars>>

PrintValidationReport ==
    /\ pc = "validated"
    /\ report' = print_validation_report(results)
    /\ pc' = "reported"
    /\ UNCHANGED <<generated, ground_truth, results, accuracy, overall, nonValidateVars>>

-----------------------------------------------------------------------------
(* Derivation rules: business_rules.derive_power_packs,                     *)
(* derive_cable_and_jhooks and the ProjectConfig methods of the same names. *)
(*                                                                          *)
(* A float ratio r is held as the integer 100 * r (0.74 is 74);            *)
(* int(total * r) is the truncated float product, which for some ratios     *)
(* and totals is one below the floor of the exact product (50 * 0.58 is     *)
(* 28.999999999999996).                                                     *)

PowerPackRatio == 74
CablePerJack == 10
JhookSpacing == 4

\* int(total_sensors * 0.74)
derive_power_packs(ceiling, wall) ==
    IntOfProduct(ceiling + wall, PowerPackRatio, 100)

derive_cable_and_jhooks_RoundUp(jacks) ==
    <<jacks * CablePerJack,
      FloorDiv(jacks * CablePerJack + JhookSpacing - 1, JhookSpacing)>>

\* cable_feet = data_jacks * 10; jhooks = cable_feet // 4
derive_cable_and_jhooks(jacks) ==
    <<jacks * CablePerJack, FloorDiv(jacks * CablePerJack, JhookSpacing)>>

\* ProjectConfig.derive_power_packs: int(total_sensors * self.power_pack_ratio)
ProjectConfig_derive_power_packs(cfg, ceiling, wall) ==
    IntOfProduct(ceiling + wall, cfg.power_pack_ratio, 100)

\* ProjectConfig.derive_cable_and_jhooks
ProjectConfig_derive_cable_and_jhooks(cfg, jacks) ==
    <<jacks * cfg.cable_per_jack_ft,
      FloorDiv(jacks * cfg.cable_per_jack_ft, cfg.jhook_spacing_ft)>>

\* ProjectConfig(): the dataclass defaults of the three ratios
DefaultConfig ==
    [power_pack_ratio |-> 74, cable_per_jack_ft |-> 10, jhook_spacing_ft |-> 4]

DerivePowerPacks ==
    /\ pc = "start"
    /\ power_packs' = derive_power_packs(ceiling_sensors, wall_sensors)
    /\ pc' = "power_packs"
    /\ UNCHANGED <<ceiling_sensors, wall_sensors, data_jacks, config, cable_jhooks,
                   nonRulesVars>>

ConfigDerivePowerPacks ==
    /\ pc = "start"
    /\ power_packs' =
           ProjectConfig_derive_power_packs(config, ceiling_sensors, wall_sensors)
    /\ pc' = "config_power_packs"
    /\ UNCHANGED <<ceiling_sensors, wall_sensors, data_jacks, config, cable_jhooks,
                   nonRulesVars>>

DeriveCableAndJhooks ==
    /\ pc = "start"
    /\ cable_jhooks' = derive_cable_and_jhooks(data_jacks)
    /\ pc' = "cable_jhooks"
    /\ UNCHANGED <<ceiling_sensors, wall_sensors, data_jacks, config, power_packs,
                   nonRulesVars>>

ConfigDeriveCableAndJhooks ==
    /\ pc = "start"
    /\ cable_jhooks' = ProjectConfig_derive_cable_and_jhooks(config, data_jacks)
    /\ pc' = "config_cable_jhooks"
    /\ UNCHANGED <<ceiling_sensors, wall_sensors, data_jacks, config, power_packs,
                   nonRulesVars>>

-----------------------------------------------------------------------------
(* Derivation engine: business_rules.derive_all_materials and the rules it  *)
(* calls.  int(x * r) and int(x / n) truncate the float result:            *)
(* int(100 * 2.3) is 229 and int((1250 / 100) * 9.2) is 114.                *)

RECURSIVE SumValues(_)
\* sum(d.values())
SumValues(d) ==
    IF DOMAIN d = {} THEN 0
    ELSE LET k == CHOOSE x \in DOMAIN d : TRUE
         IN  d[k] + SumValues([x \in (DOMAIN d) \ {k} |-> d[x]])

\* `if conduit_lengths:` -- neither None nor an empty dict
Truthy(cl) == ~cl.none /\ DOMAIN cl.items # {}

NoConduit == [none |-> TRUE, items |-> EmptyDict]

\* the ratios table of derive_fittings_from_conduit, per 100 ft, in tenths;
\* a size that is not in the table gets the 3/4" ratios
FittingRatios(size) ==
    CASE size = "1/2\"" ->
            [connector |-> 100, coupling |-> 80, bushing |-> 100,
             strap_1hole |-> 120, strap_unistrut |-> 0]
      [] size = "1\"" ->
            [connector |-> 49, coupling |-> 81, bushing |-> 49,
             strap_1hole |-> 19, strap_unistrut |-> 101]
      [] size = "1-1/4\"" ->
            [connector |-> 118, coupling |-> 58, bushing |-> 118,
             strap_1hole |-> 41, strap_unistrut |-> 73]
      [] OTHER ->
            [connector |-> 105, coupling |-> 92, bushing |-> 105,
             strap_1hole |-> 92, strap_unistrut |-> 31]

\* int(factor * ratio) with factor = length / 100 and the ratio in tenths
PerHundredFeet(length, ratio10) ==
    DoubleTrunc(DoubleTimes(DoubleOver(DoubleOfInt(length), 100),
                            DoubleOfRatio(ratio10, 10)))

\* the entries one pass of the loop of derive_fittings_from_conduit adds
SizeFittings(size, length) ==
    LET r == FittingRatios(size)
        four == [k \in {size \o " Connector", size \o " Coupling",
                        size \o " Bushing", size \o " 1-Hole Strap"} |->
                    IF k = size \o " Connector" THEN PerHundredFeet(length, r.connector)
                    ELSE IF k = size \o " Coupling" THEN PerHundredFeet(length, r.coupling)
                    ELSE IF k = size \o " Bushing" THEN PerHundredFeet(length, r.bushing)
                    ELSE PerHundredFeet(length, r.strap_1hole)]
    IN  IF r.strap_unistrut > 0
        THEN Update(four, [k \in {size \o " Unistrut Strap"} |->
                              PerHundredFeet(length, r.strap_unistrut)])
        ELSE four

RECURSIVE derive_fittings_from_conduit(_)
\* the loop over conduit_lengths.items(); a length <= 0 is skipped
derive_fittings_from_conduit(items) ==
    IF DOMAIN items = {} THEN EmptyDict
    ELSE LET size == CHOOSE x \in DOMAIN items : TRUE
             rest == [x \in (DOMAIN items) \ {size} |-> items[x]]
         IN  IF items[size] <= 0
             THEN derive_fittings_from_conduit(rest)
             ELSE Update(derive_fittings_from_conduit(rest),
                         SizeFittings(size, items[size]))

derive_boxes_DeepBoxesExtra(duplex, gfi, switches, dimmers, wall, ceiling, daylight, jacks, floor_boxes) ==
    LET wall_devices    == duplex + gfi + switches + dimmers + wall
        ceiling_devices == ceiling + daylight
        data_new_boxes  == IntOfProduct(jacks, 15, 100)
        deep_boxes      == IntOfProduct(wall_devices, 10, 100)
    IN  [k \in {"4\" Square Box w/bracket", "4\" Square Box",
                "4-11/16\" Square Box w/bracket", "4\" Square Box 2-1/8\" deep"} |->
            IF k = "4\" Square Box w/bracket" THEN wall_devices
            ELSE IF k = "4\" Square Box" THEN ceiling_devices
            ELSE IF k = "4-11/16\" Square Box w/bracket" THEN data_new_boxes
            ELSE deep_boxes]

derive_boxes(duplex, gfi, switches, dimmers, wall, ceiling, daylight, jacks, floor_boxes) ==
    LET wall_devices    == duplex + gfi + switches + dimmers + wall
        ceiling_devices == ceiling + daylight
        data_new_boxes  == IntOfProduct(jacks, 15, 100)
        deep_boxes      == IntOfProduct(wall_devices, 10, 100)
    IN  [k \in {"4\" Square Box w/bracket", "4\" Square Box",
                "4-11/16\" Square Box w/bracket", "4\" Square Box 2-1/8\" deep"} |->
            IF k = "4\" Square Box w/bracket" THEN Max(0, wall_devices - deep_boxes)
            ELSE IF k = "4\" Square Box" THEN ceiling_devices
            ELSE IF k = "4-11/16\" Square Box w/bracket" THEN data_new_boxes
            ELSE deep_boxes]

derive_plaster_rings(duplex, gfi, switches, dimmers, wall, ceiling, daylight, two_gang) ==
    LET single_gang_devices == duplex + gfi + switches + dimmers + wall - (two_gang * 2)
        ceiling_devices     == ceiling + daylight
    IN  [k \in {"4\" Square-1G Plaster Ring", "4\" Square-2G Plaster Ring",
                "4\" Square-3/0 Plaster Ring"} |->
            IF k = "4\" Square-1G Plaster Ring" THEN Max(0, single_gang_devices)
            ELSE IF k = "4\" Square-2G Plaster Ring" THEN two_gang
            ELSE ceiling_devices]

derive_plates(duplex, gfi, dimmer, sp_switches, three_way, two_gang_boxes, blank_boxes) ==
    LET duplex_plates == Max(0, duplex - (two_gang_boxes * 2))
        decora_plates == gfi + dimmer
        switch_plates == sp_switches + three_way
        blank_covers  == blank_boxes
        blank_w_ko    == IntOfProduct(blank_boxes, 3, 10)
    IN  [k \in {"Duplex Plate", "Decora Plate", "Switch Plate", "Blank Cover",
                "Blank Cover w/KO"} |->
            IF k = "Duplex Plate" THEN duplex_plates
            ELSE IF k = "Decora Plate" THEN decora_plates
            ELSE IF k = "Switch Plate" THEN switch_plates
            ELSE IF k = "Blank Cover" THEN Max(0, blank_covers - blank_w_ko)
            ELSE blank_w_ko]

derive_consumables(total_devices, total_boxes, total_conduit_feet) ==
    [k \in {"Red Wirenut", "Yellow Wirenut", "Ground Screw",
            "Pan Head Tapping Screw #8", "Poly Pull Line (ft)", "Black Tape",
            "Red Phase Tape", "Blue Phase Tape"} |->
        IF k = "Red Wirenut" THEN total_devices * 4
        ELSE IF k = "Yellow Wirenut" THEN total_devices * 2
        ELSE IF k = "Ground Screw" THEN total_boxes
        ELSE IF k = "Pan Head Tapping Screw #8" THEN total_devices * 4
        ELSE IF k = "Poly Pull Line (ft)" THEN IntOfProduct(total_conduit_feet, 5, 10)
        ELSE IF k = "Black Tape" THEN Max(1, IntOfQuotient(total_devices, 50))
        ELSE Max(1, IntOfQuotient(total_devices, 100))]

derive_fixture_accessories(lay_in, linear, pendant, surface) ==
    [k \in {"Fixture Whip", "Pendant/Cable", "Aircraft Cable Kit", "Canopy Kit"} |->
        IF k = "Fixture Whip" THEN lay_in
        ELSE IF k = "Pendant/Cable" THEN linear * 4
        ELSE IF k = "Aircraft Cable Kit" THEN pendant * 4
        ELSE pendant]

\* one `if size in conduit_lengths and conduit_lengths[size] > 0` block
WireOf(items, size, gauge, mult, per) ==
    IF size \in DOMAIN items /\ items[size] > 0
    THEN [k \in {gauge} |-> IntOfProduct(items[size], mult, per)]
    ELSE EmptyDict

derive_wire_from_conduit(items) ==
    Update(Update(Update(WireOf(items, "1/2\"", "#14 THHN", 30, 10),
                         WireOf(items, "3/4\"", "#12 THHN", 23, 10)),
                  WireOf(items, "1\"", "#10 THHN", 84, 10)),
           WireOf(items, "1-1/4\"", "#8 THHN", 8, 100))

\* total_conduit = sum(conduit_lengths.values()) if conduit_lengths else 0
TotalConduit(cl) == IF Truthy(cl) THEN SumValues(cl.items) ELSE 0

OptionalGroups_WireUnderFittings(total_devices, total_boxes, cl, inc_fit, inc_cons, inc_wire) ==
    LET fittings    == IF inc_fit /\ Truthy(cl)
                       THEN derive_fittings_from_conduit(cl.items) ELSE EmptyDict
        consumables == IF inc_cons
                       THEN derive_consumables(total_devices, total_boxes, TotalConduit(cl))
                       ELSE EmptyDict
        wire        == IF inc_fit /\ inc_wire /\ Truthy(cl)
                       THEN derive_wire_from_conduit(cl.items) ELSE EmptyDict
    IN  Update(Update(fittings, consumables), wire)

\* the three flagged blocks at the end of derive_all_materials: fittings,
\* consumables, wire, in the order the code updates `derived` with them
OptionalGroups(total_devices, total_boxes, cl, inc_fit, inc_cons, inc_wire) ==
    LET fittings    == IF inc_fit /\ Truthy(cl)
                       THEN derive_fittings_from_conduit(cl.items) ELSE EmptyDict
        consumables == IF inc_cons
                       THEN derive_consumables(total_devices, total_boxes, TotalConduit(cl))
                       ELSE EmptyDict
        wire        == IF inc_wire /\ Truthy(cl)
                       THEN derive_wire_from_conduit(cl.items) ELSE EmptyDict
    IN  Update(Update(fittings, consumables), wire)

derive_all_materials(cnt, cl, inc_fit, inc_cons, inc_wire) ==
    LET ceiling     == Get(cnt, "Ceiling Occupancy Sensor", 0)
        wall        == Get(cnt, "Wall Occupancy Sensor", 0)
        daylight    == Get(cnt, "Daylight Sensor", 0)
        jacks       == Get(cnt, "Cat 6 Jack", 0)
        duplex      == Get(cnt, "Duplex Receptacle", 0)
        gfi         == Get(cnt, "GFI Receptacle", 0)
        dimmers     == Get(cnt, "Wireless Dimmer", 0)
        sp_switches == Get(cnt, "SP Switch", 0)
        three_way   == Get(cnt, "3-Way Switch", 0)
        lay_in_fixtures == Get(cnt, "F2", 0) + Get(cnt, "F8", 0)
        linear_count ==
            Get(cnt, "4' Linear LED", 0) + Get(cnt, "6' Linear LED", 0) +
            Get(cnt, "8' Linear LED", 0) + Get(cnt, "10' Linear LED", 0) +
            Get(cnt, "16' Linear LED", 0)
        pendant_count ==
            Get(cnt, "F10-22", 0) + Get(cnt, "F10-30", 0) + Get(cnt, "F11-4X4", 0) +
            Get(cnt, "F11-6X6", 0) + Get(cnt, "F11-8X8", 0) +
            Get(cnt, "F11-10X10", 0) + Get(cnt, "F11-16X10", 0)
        surface_count == Get(cnt, "F7", 0) + Get(cnt, "F7E", 0)
        cj == derive_cable_and_jhooks(jacks)
        validated ==
            [k \in {"Power Pack", "Cat 6 Cable (ft)", "J-Hook"} |->
                IF k = "Power Pack" THEN derive_power_packs(ceiling, wall)
                ELSE IF k = "Cat 6 Cable (ft)" THEN cj[1]
                ELSE cj[2]]
        total_switches == sp_switches + three_way
        boxes == derive_boxes(duplex, gfi, total_switches, dimmers, wall, ceiling,
                              daylight, jacks, 0)
        rings == derive_plaster_rings(duplex, gfi, total_switches, dimmers, wall,
                                      ceiling, daylight, 0)
        plates == derive_plates(duplex, gfi, dimmers, sp_switches, three_way, 0, 0)
        accessories == derive_fixture_accessories(lay_in_fixtures, linear_count,
                                                  pendant_count, surface_count)
        total_devices == duplex + gfi + total_switches + dimmers + ceiling + wall +
                         daylight + jacks
    IN  Update(Update(Update(Update(Update(validated, boxes), rings), plates),
                      accessories),
               OptionalGroups(total_devices, SumValues(boxes), cl,
                              inc_fit, inc_cons, inc_wire))

DeriveAllMaterials ==
    /\ pc = "start"
    /\ derived' = derive_all_materials(counts, conduit_lengths, include_fittings,
                                       include_consumables, include_wire)
    /\ pc' = "derived"
    /\ UNCHANGED <<deriveInputs, engine_boxes, omitted, derived_partial,
                   nonDeriveVars>>

\* a second call on the same counts and lengths with one flag switched off
RederiveWithoutFittings ==
    /\ pc = "derived" /\ include_fittings
    /\ derived_partial' = derive_all_materials(counts, conduit_lengths, FALSE,
                                               include_consumables, include_wire)
    /\ omitted' = "fittings"
    /\ pc' = "rederived"
    /\ UNCHANGED <<deriveInputs, engine_boxes, derived, nonDeriveVars>>

RederiveWithoutConsumables ==
    /\ pc = "derived" /\ include_consumables
    /\ derived_partial' = derive_all_materials(counts, conduit_lengths,
                                               include_fittings, FALSE, include_wire)
    /\ omitted' = "consumables"
    /\ pc' = "rederived"
    /\ UNCHANGED <<deriveInputs, engine_boxes, derived, nonDeriveVars>>

RederiveWithoutWire ==
    /\ pc = "derived" /\ include_wire
    /\ derived_partial' = derive_all_materials(counts, conduit_lengths,
                                               include_fittings, include_consumables,
                                               FALSE)
    /\ omitted' = "wire"
    /\ pc' = "rederived"
    /\ UNCHANGED <<deriveInputs, engine_boxes, derived, nonDeriveVars>>

\* a second call with the same counts, lengths and flags
DeriveAgain ==
    /\ pc = "derived"
    /\ derived_partial' = derive_all_materials(counts, conduit_lengths, include_fittings,
                                               include_consumables, include_wire)
    /\ pc' = "repeated"
    /\ UNCHANGED <<deriveInputs, engine_boxes, derived, omitted, nonDeriveVars>>

\* the schedule quantities derive_materials_with_schedules is called with
FixtureSchedules ==
    {EmptyDict, [k \in {"F2"} |-> 4], [k \in {"F2", "Duplex Receptacle"} |-> 5]}

PanelSchedules == {EmptyDict, [k \in {"Cat 6 Jack"} |-> 8]}

DeriveMaterialsWithSchedules_InPlace ==
    /\ pc = "start"
    /\ \E fixture_schedule \in FixtureSchedules, panel_schedule \in PanelSchedules :
          LET combined == Update(Update(counts, fixture_schedule), panel_schedule)
          IN  /\ counts' = combined
              /\ derived' = derive_all_materials(combined, conduit_lengths,
                                                 ~conduit_lengths.none, TRUE,
                                                 ~conduit_lengths.none)
    /\ pc' = "derived_with_schedules"
    /\ UNCHANGED <<conduit_lengths, include_fittings, include_consumables, include_wire,
                   engine_boxes, omitted, derived_partial, nonDeriveVars>>

\* derive_materials_with_schedules(counts, fixture_schedule, panel_schedule,
\* conduit_lengths): the schedules are laid over a copy of the floor counts
DeriveMaterialsWithSchedules ==
    /\ pc = "start"
    /\ \E fixture_schedule \in FixtureSchedules, panel_schedule \in PanelSchedules :
          LET combined == Update(Update(counts, fixture_schedule), panel_schedule)
          IN  derived' = derive_all_materials(combined, conduit_lengths,
                                              ~conduit_lengths.none, TRUE,
                                              ~conduit_lengths.none)
    /\ pc' = "derived_with_schedules"
    /\ UNCHANGED <<deriveInputs, engine_boxes, omitted, derived_partial,
                   nonDeriveVars>>

-----------------------------------------------------------------------------
(* One call of derive_all_materials, rule by rule in the order of the code. *)
(* `derived` is the dict under construction and `boxes` the local the boxes *)
(* rule assigns.                                                            *)

\* the locals extracted from `counts` at the top of derive_all_materials
ExtractCounts(cnt) ==
    [ceiling_sensors  |-> Get(cnt, "Ceiling Occupancy Sensor", 0),
     wall_sensors     |-> Get(cnt, "Wall Occupancy Sensor", 0),
     daylight_sensors |-> Get(cnt, "Daylight Sensor", 0),
     data_jacks       |-> Get(cnt, "Cat 6 Jack", 0),
     duplex           |-> Get(cnt, "Duplex Receptacle", 0),
     gfi              |-> Get(cnt, "GFI Receptacle", 0),
     dimmers          |-> Get(cnt, "Wireless Dimmer", 0),
     sp_switches      |-> Get(cnt, "SP Switch", 0),
     three_way        |-> Get(cnt, "3-Way Switch", 0),
     lay_in_fixtures  |-> Get(cnt, "F2", 0) + Get(cnt, "F8", 0),
     linear_count     |->
        Get(cnt, "4' Linear LED", 0) + Get(cnt, "6' Linear LED", 0) +
        Get(cnt, "8' Linear LED", 0) + Get(cnt, "10' Linear LED", 0) +
        Get(cnt, "16' Linear LED", 0),
     pendant_count    |->
        Get(cnt, "F10-22", 0) + Get(cnt, "F10-30", 0) + Get(cnt, "F11-4X4", 0) +
        Get(cnt, "F11-6X6", 0) + Get(cnt, "F11-8X8", 0) +
        Get(cnt, "F11-10X10", 0) + Get(cnt, "F11-16X10", 0),
     surface_count    |-> Get(cnt, "F7", 0) + Get(cnt, "F7E", 0)]

\* the rules in the order derive_all_materials evaluates them
RuleOrder ==
    <<"power_packs", "cable_jhooks", "boxes", "rings", "plates", "accessories",
      "fittings", "consumables", "wire">>

\* the consumables block: total_devices from the counts, total_boxes from the
\* local `boxes`, total_conduit from the lengths
ConsumablesBlock(cnt, cl, inc_cons, boxes_local) ==
    LET c == ExtractCounts(cnt)
        total_switches == c.sp_switches + c.three_way
        total_devices == c.duplex + c.gfi + total_switches + c.dimmers +
                         c.ceiling_sensors + c.wall_sensors + c.daylight_sensors +
                         c.data_jacks
    IN  IF inc_cons
        THEN derive_consumables(total_devices, SumValues(boxes_local), TotalConduit(cl))
        ELSE EmptyDict

\* the entries one rule's block adds to `derived`, given the call's arguments
\* and the value the local `boxes` holds when the block runs
RuleOutput(rule, cnt, cl, inc_fit, inc_cons, inc_wire, boxes_local) ==
    LET c == ExtractCounts(cnt)
        total_switches == c.sp_switches + c.three_way
    IN  CASE rule = "power_packs" ->
                [k \in {"Power Pack"} |->
                    derive_power_packs(c.ceiling_sensors, c.wall_sensors)]
          [] rule = "cable_jhooks" ->
                [k \in {"Cat 6 Cable (ft)", "J-Hook"} |->
                    IF k = "Cat 6 Cable (ft)"
                    THEN derive_cable_and_jhooks(c.data_jacks)[1]
                    ELSE derive_cable_and_jhooks(c.data_jacks)[2]]
          [] rule = "boxes" ->
                derive_boxes(c.duplex, c.gfi, total_switches, c.dimmers,
                             c.wall_sensors, c.ceiling_sensors, c.daylight_sensors,
                             c.data_jacks, 0)
          [] rule = "rings" ->
                derive_plaster_rings(c.duplex, c.gfi, total_switches, c.dimmers,
                                     c.wall_sensors, c.ceiling_sensors,
                                     c.daylight_sensors, 0)
          [] rule = "plates" ->
                derive_plates(c.duplex, c.gfi, c.dimmers, c.sp_switches,
                              c.three_way, 0, 0)
          [] rule = "accessories" ->
                derive_fixture_accessories(c.lay_in_fixtures, c.linear_count,
                                           c.pendant_count, c.surface_count)
          [] rule = "fittings" ->
                IF inc_fit /\ Truthy(cl)
                THEN derive_fittings_from_conduit(cl.items) ELSE EmptyDict
          [] rule = "consumables" ->
                ConsumablesBlock(cnt, cl, inc_cons, boxes_local)
          [] rule = "wire" ->
                IF inc_wire /\ Truthy(cl)
                THEN derive_wire_from_conduit(cl.items) ELSE EmptyDict

\* position i of the call: the i-th rule's block runs and updates `derived`
EvaluateRule(i) ==
    /\ pc = (IF i = 1 THEN "start" ELSE RuleOrder[i - 1])
    /\ LET out == RuleOutput(RuleOrder[i], counts, conduit_lengths, include_fittings,
                             include_consumables, include_wire, engine_boxes)
       IN  /\ derived' = Update(derived, out)
           /\ engine_boxes' = IF RuleOrder[i] = "boxes" THEN out ELSE engine_boxes
    /\ pc' = RuleOrder[i]
    /\ UNCHANGED <<deriveInputs, omitted, derived_partial, nonDeriveVars>>

EvaluatePowerPacks == EvaluateRule(1)
EvaluateCableJhooks == EvaluateRule(2)
EvaluateBoxes == EvaluateRule(3)
EvaluateRings == EvaluateRule(4)
EvaluatePlates == EvaluateRule(5)
EvaluateAccessories == EvaluateRule(6)
EvaluateFittings == EvaluateRule(7)
EvaluateConsumables == EvaluateRule(8)
EvaluateWire == EvaluateRule(9)

\* return derived
ReturnDerived ==
    /\ pc = "wire"
    /\ pc' = "returned"
    /\ UNCHANGED <<deriveVars, nonDeriveVars>>

-----------------------------------------------------------------------------
(* The pipeline step TakeOffSystem.derive_materials (main.py).  `counts` is *)
(* what aggregate_counts returned, conduit_lengths.items is                 *)
(* routing.conduit.conduit_by_size, `config` is the project configuration.  *)

\* conduit_lengths = None, replaced by conduit_by_size when that is not empty
PipelineConduitLengths(conduit_by_size) ==
    IF DOMAIN conduit_by_size # {}
    THEN [none |-> FALSE, items |-> conduit_by_size]
    ELSE NoConduit

PipelineDeriveMaterials ==
    /\ pc = "start"
    /\ LET lengths == PipelineConduitLengths(conduit_lengths.items)
       IN  derived' = derive_all_materials(counts, lengths, ~lengths.none, TRUE,
                                           ~lengths.none)
    /\ pc' = "pipeline_derived"
    /\ UNCHANGED <<deriveInputs, engine_boxes, omitted, derived_partial, nonDeriveVars>>

-----------------------------------------------------------------------------
(* models.DeviceCounts.merge and symbol_counter.aggregate_level_counts.     *)
(* A DeviceCounts is a function from its six dict fields to dicts.          *)

CategoryNames == {"fixtures", "controls", "power", "fire_alarm", "technology", "demo"}

\* DeviceCounts(): every field an empty dict
EmptyDeviceCounts == [c \in CategoryNames |-> EmptyDict]

MergeDict_Overwrite(self_dict, other_dict) == Update(self_dict, other_dict)

\* the inner loop: self_dict[key] = self_dict.get(key, 0) + value
MergeDict(self_dict, other_dict) ==
    [k \in (DOMAIN self_dict) \cup (DOMAIN other_dict) |->
        IF k \in DOMAIN other_dict
        THEN Get(self_dict, k, 0) + other_dict[k]
        ELSE self_dict[k]]

\* self after self.merge(other)
merge(self, other) == [c \in CategoryNames |-> MergeDict(self[c], other[c])]

RECURSIVE MergeAllInOrder(_, _)
\* the loop of aggregate_level_counts over the levels in dict order
MergeAllInOrder(acc, levels) ==
    IF levels = <<>> THEN acc
    ELSE MergeAllInOrder(merge(acc, Head(levels)), Tail(levels))

Unmerged == (1..Len(level_counts)) \ (merged_into_total \cup merged_into_partial)

\* total.merge(level_counts[i]) for an operand not merged yet
MergeIntoTotal ==
    /\ pc \in {"start", "merging"}
    /\ \E i \in Unmerged :
          /\ merged_total' = merge(merged_total, level_counts[i])
          /\ merged_into_total' = merged_into_total \cup {i}
    /\ pc' = "merging"
    /\ UNCHANGED <<level_counts, partial, merged_into_partial, partial_merged,
                   nonMergeVars>>

\* partial.merge(level_counts[i]): the operand joins a group merged later
MergeIntoPartial ==
    /\ pc \in {"start", "merging"}
    /\ ~partial_merged
    /\ \E i \in Unmerged :
          /\ partial' = merge(partial, level_counts[i])
          /\ merged_into_partial' = merged_into_partial \cup {i}
    /\ pc' = "merging"
    /\ UNCHANGED <<level_counts, merged_total, merged_into_total, partial_merged,
                   nonMergeVars>>

\* total.merge(partial): the group is merged as one operand
MergePartialIntoTotal ==
    /\ pc = "merging"
    /\ ~partial_merged
    /\ merged_into_partial # {}
    /\ merged_total' = merge(merged_total, partial)
    /\ partial_merged' = TRUE
    /\ UNCHANGED <<pc, level_counts, partial, merged_into_total, merged_into_partial,
                   nonMergeVars>>

\* aggregate_level_counts(level_counts)
AggregateLevelCounts ==
    /\ pc = "start"
    /\ merged_total' = MergeAllInOrder(EmptyDeviceCounts, level_counts)
    /\ merged_into_total' = 1..Len(level_counts)
    /\ pc' = "merging"
    /\ UNCHANGED <<level_counts, partial, merged_into_partial, partial_merged,
                   nonMergeVars>>

-----------------------------------------------------------------------------
(* pdf_extractor: counting tags on the pages of a document.  pdf.pages is a *)
(* sequence of pages, and a page is [kind, words, text]: `words` is what    *)
(* page.extract_words() returns, records [text, x0, x1, top] in reading     *)
(* order with `text` a sequence of characters; `text` is what               *)
(* page.extract_text() returns, a sequence of characters in which the words *)
(* of a line are separated by a space and the lines by a newline (empty     *)
(* when the call returns None).  On a page of kind "error" both calls       *)
(* raise.  A regular expression is matched in the text of the whole page.   *)

\* page.width and page.height
PageSize == [width |-> 1000, height |-> 1000]

Word(text, x0, x1, top) == [text |-> text, x0 |-> x0, x1 |-> x1, top |-> top]

RECURSIVE TextOfWords(_, _, _)
\* the text of the words i..j of a page: two words of one line are separated
\* by a space, two words of different lines by a newline
TextOfWords(words, i, j) ==
    IF i > j THEN <<>>
    ELSE IF i = j THEN words[i].text
    ELSE LET m == (i + j) \div 2
         IN  TextOfWords(words, i, m)
                \o <<IF words[m].top = words[m + 1].top THEN " " ELSE "\n">>
                \o TextOfWords(words, m + 1, j)

\* a page that can be read, with its words and their text
Page(words) ==
    [kind |-> "ok", words |-> words, text |-> TextOfWords(words, 1, Len(words))]

\* a page without text, and a page whose extraction raises
TextlessPage == Page(<<>>)
UnreadablePage == [kind |-> "error", words |-> <<>>, text |-> <<>>]

\* pdf.pages[page_num] raises IndexError: Python counts a negative index
\* from the end of the list
OutOfRange(pages, page_no) == page_no >= Len(pages) \/ page_no < -Len(pages)

\* pdf.pages[page_num]
PageAt(pages, page_no) ==
    pages[IF page_no >= 0 THEN page_no + 1 ELSE Len(pages) + page_no + 1]

\* page = pdf.pages[page_num] followed by page.extract_words() or
\* page.extract_text() raises
Raises(pages, page_no) ==
    OutOfRange(pages, page_no) \/ PageAt(pages, page_no).kind = "error"

\* The characters str.upper() changes into one character of U+0000..U+00FF,
\* and what it changes them into, place by place
LowerChars ==
    <<"a", "b", "c", "d", "e", "f", "g", "h", "i", "j", "k", "l", "m", "n",
      "o", "p", "q", "r", "s", "t", "u", "v", "w", "x", "y", "z", "à", "á",
      "â", "ã", "ä", "å", "æ", "ç", "è", "é", "ê", "ë", "ì", "í", "î", "ï",
      "ð", "ñ", "ò", "ó", "ô", "õ", "ö", "ø", "ù", "ú", "û", "ü", "ý", "þ">>
UpperChars ==
    <<"A", "B", "C", "D", "E", "F", "G", "H", "I", "J", "K", "L", "M", "N",
      "O", "P", "Q", "R", "S", "T", "U", "V", "W", "X", "Y", "Z", "À", "Á",
      "Â", "Ã", "Ä", "Å", "Æ", "Ç", "È", "É", "Ê", "Ë", "Ì", "Í", "Î", "Ï",
      "Ð", "Ñ", "Ò", "Ó", "Ô", "Õ", "Ö", "Ø", "Ù", "Ú", "Û", "Ü", "Ý", "Þ">>

RECURSIVE UpperTable(_)
\* the first i characters of LowerChars, each with its upper case
UpperTable(i) ==
    IF i = 1 THEN LowerChars[1] :> UpperChars[1]
    ELSE (LowerChars[i] :> UpperChars[i]) @@ UpperTable(i - 1)

\* the upper case of each character of LowerChars
UpperOf == UpperTable(Len(LowerChars))

\* str.upper() on one character, as the characters it gives: U+00DF gives
\* SS; U+00B5 and U+00FF give U+039C and U+0178, which no string can hold and
\* which are held by these names
UpperChar(c) ==
    IF c \in DOMAIN UpperOf THEN <<UpperOf[c]>>
    ELSE IF c = "ß" THEN <<"S", "S">>
    ELSE IF c = "µ" THEN <<"U+039C">>
    ELSE IF c = "ÿ" THEN <<"U+0178">>
    ELSE <<c>>

RECURSIVE Upper(_)
\* str.upper(): the upper case of each character, one after the other
Upper(text) ==
    IF Len(text) = 0 THEN <<>>
    ELSE IF Len(text) = 1 THEN UpperChar(text[1])
    ELSE LET m == Len(text) \div 2
         IN  Upper(SubSeq(text, 1, m)) \o Upper(SubSeq(text, m + 1, Len(text)))

\* str.strip()
Strip(text) == StripChars(text, Whitespace)

\* the characters \w matches
WordChars ==
    {"0", "1", "2", "3", "4", "5", "6", "7", "8", "9", "A", "B", "C", "D",
     "E", "F", "G", "H", "I", "J", "K", "L", "M", "N", "O", "P", "Q", "R",
     "S", "T", "U", "V", "W", "X", "Y", "Z", "_", "a", "b", "c", "d", "e",
     "f", "g", "h", "i", "j", "k", "l", "m", "n", "o", "p", "q", "r", "s",
     "t", "u", "v", "w", "x", "y", "z", "ª", "²", "³", "µ", "¹", "º", "¼",
     "½", "¾", "À", "Á", "Â", "Ã", "Ä", "Å", "Æ", "Ç", "È", "É", "Ê", "Ë",
     "Ì", "Í", "Î", "Ï", "Ð", "Ñ", "Ò", "Ó", "Ô", "Õ", "Ö", "Ø", "Ù", "Ú",
     "Û", "Ü", "Ý", "Þ", "ß", "à", "á", "â", "ã", "ä", "å", "æ", "ç", "è",
     "é", "ê", "ë", "ì", "í", "î", "ï", "ð", "ñ", "ò", "ó", "ô", "õ", "ö",
     "ø", "ù", "ú", "û", "ü", "ý", "þ", "ÿ"}

\* re.IGNORECASE on one character, for patterns of ASCII characters: a..z
\* stand for A..Z, and no other character of a string stands for a letter
AsciiLower == {LowerChars[i] : i \in 1..26}
FoldChar(c) == IF c \in AsciiLower THEN UpperOf[c] ELSE c

\* a text as re.IGNORECASE compares it with a pattern in upper case
FoldCase(text) == [i \in 1..Len(text) |-> FoldChar(text[i])]

\* `pat in text`
Occurs(pat, text) ==
    \E i \in 1..(Len(text) - Len(pat) + 1) : SubSeq(text, i, i + Len(pat) - 1) = pat

(* Regular expressions.  A pattern is a sequence of items [set, rep]: one   *)
(* character of the set ("1"), at most one ("?"), any number ("*"), no      *)
(* character of the set next ("!", a negative lookahead) and \b ("b").  A   *)
(* regular expression is a sequence of patterns, its alternatives.          *)
One(S) == [set |-> S, rep |-> "1"]
Opt(S) == [set |-> S, rep |-> "?"]
Star(S) == [set |-> S, rep |-> "*"]
NotNext(S) == [set |-> S, rep |-> "!"]
WordEdge == [set |-> {}, rep |-> "b"]

\* the pattern that matches the characters of s, one after the other
Literal(s) == [i \in 1..Len(s) |-> One({s[i]})]

\* \b p \b
Bounded(p) == <<WordEdge>> \o p \o <<WordEdge>>

\* \b at position i: of the characters before and at i, one is a word
\* character and the other is not (the two ends of the text are not)
AtWordEdge(text, i) ==
    (i > 1 /\ text[i - 1] \in WordChars) # (i <= Len(text) /\ text[i] \in WordChars)

RECURSIVE MatchEnd(_, _, _, _, _)
\* the position after the match of the items k.. of pat at position i of the
\* text, as re finds it: a "?" or "*" takes a character when it can and gives
\* it back when the rest does not match (0: no match)
MatchEnd(text, i, pat, k, fold) ==
    IF k > Len(pat) THEN i
    ELSE LET here == /\ i <= Len(text)
                     /\ \/ text[i] \in pat[k].set
                        \/ fold /\ FoldChar(text[i]) \in pat[k].set
         IN  CASE pat[k].rep = "b" ->
                    IF AtWordEdge(text, i) THEN MatchEnd(text, i, pat, k + 1, fold) ELSE 0
               [] pat[k].rep = "!" ->
                    IF here THEN 0 ELSE MatchEnd(text, i, pat, k + 1, fold)
               [] pat[k].rep = "1" ->
                    IF here THEN MatchEnd(text, i + 1, pat, k + 1, fold) ELSE 0
               [] pat[k].rep = "?" ->
                    LET taken == IF here THEN MatchEnd(text, i + 1, pat, k + 1, fold) ELSE 0
                    IN  IF taken # 0 THEN taken ELSE MatchEnd(text, i, pat, k + 1, fold)
               [] pat[k].rep = "*" ->
                    LET taken == IF here THEN MatchEnd(text, i + 1, pat, k, fold) ELSE 0
                    IN  IF taken # 0 THEN taken ELSE MatchEnd(text, i, pat, k + 1, fold)

\* the end of the first alternative that matches, `ends` being the pairs of
\* an alternative's number and the position after its match (0: no match)
FirstEnd(ends) ==
    LET ok == {e \in ends : e[2] # 0}
    IN  IF ok = {} THEN 0 ELSE (CHOOSE e \in ok : \A d \in ok : e[1] <= d[1])[2]

\* the position after the match of the regular expression at position i:
\* that of the first alternative that matches (0: none)
RegexEnd(text, i, regex, fold) ==
    FirstEnd({<<n, MatchEnd(text, i, regex[n], 1, fold)>> : n \in DOMAIN regex})

RECURSIVE CountFrom(_, _)
\* the matches re.findall takes among those that start at position i or
\* after it, `matches` being the pairs of a position at which the regular
\* expression matches and the position after that match: the leftmost one,
\* then those after its end
CountFrom(matches, i) ==
    LET left == {m \in matches : m[1] >= i}
    IN  IF left = {} THEN 0
        ELSE LET s == CHOOSE m \in left : \A k \in left : m[1] <= k[1]
             IN  1 + CountFrom(matches, Max(s[2], s[1] + 1))

\* len(re.findall(regex, text)): the matches are taken from left to right,
\* each search resuming after the previous match
FindAllCount(text, regex, fold) ==
    CountFrom({m \in {<<j, RegexEnd(text, j, regex, fold)>> : j \in 1..Len(text)} :
                  m[2] # 0}, 1)

\* re.search(regex, text) finds a match
Search(text, regex, fold) ==
    \E i \in 1..Len(text) : RegexEnd(text, i, regex, fold) # 0

\* the negation of `word['x0'] > width * x_frac or word['top'] > height * y_frac`,
\* the fractions in hundredths; on the 1000 x 1000 page the float products
\* 1000 * 0.85 and 1000 * 0.90 are exactly 850.0 and 900.0
InFloorPlanArea(word, x_frac, y_frac) ==
    ~ (\/ word.x0 * 100 > PageSize.width * x_frac
       \/ word.top * 100 > PageSize.height * y_frac)

\* len(re.findall(rf'(?<![0-9]){d}(?![0-9])', text)): how often the digit d
\* stands in the text with no digit before or after it
IsolatedOccurrences(text, d) ==
    Cardinality({i \in 1..Len(text) :
                    /\ text[i] = d
                    /\ (i = 1 \/ text[i - 1] \notin Digits)
                    /\ (i = Len(text) \/ text[i + 1] \notin Digits)})

-----------------------------------------------------------------------------
(* pdf_extractor.extract_demo_items and _estimate_demo_from_text.           *)

DemoNames ==
    {"Demo 2'x4' Recessed", "Demo 2'x2' Recessed", "Demo Downlight", "Demo 4' Strip",
     "Demo 8' Strip", "Demo Exit", "Demo Receptacle", "Demo Floor Box", "Demo Switch"}

\* keynote_mapping / keynote_to_demo
KeynoteMapping ==
    [d \in {"1", "2", "3", "4", "5", "6", "7", "9"} |->
        CASE d = "1" -> "Demo 2'x4' Recessed"
          [] d = "2" -> "Demo 2'x2' Recessed"
          [] d = "3" -> "Demo Downlight"
          [] d = "4" -> "Demo Switch"
          [] d = "5" -> "Demo 4' Strip"
          [] d = "6" -> "Demo 8' Strip"
          [] d = "7" -> "Demo Exit"
          [] d = "9" -> "Demo Receptacle"]

\* the keynote of a demo type
KeynoteOf(name) == CHOOSE d \in DOMAIN KeynoteMapping : KeynoteMapping[d] = name

\* `if word_width < 30`
KeynoteMaxWidth == 30

\* `if sum(demo.values()) < 10`
LowConfidenceThreshold == 10

\* the words the loop of extract_demo_items does not skip
DemoAreaWords(words) == {i \in DOMAIN words : InFloorPlanArea(words[i], 85, 90)}

\* fb_count after the loop
FbCount(words) ==
    Cardinality({i \in DemoAreaWords(words) : Upper(Strip(words[i].text)) = <<"F", "B">>})

\* keynote_counts[d] after the loop
KeynoteCount(words, d) ==
    Cardinality({i \in DemoAreaWords(words) :
                    /\ Upper(Strip(words[i].text)) # <<"F", "B">>
                    /\ Strip(words[i].text) = <<d>>
                    /\ words[i].x1 - words[i].x0 < KeynoteMaxWidth})

\* count // floor_count if floor_count > 1 else count
AdjustForFloors(count, floors) == IF floors > 1 THEN count \div floors ELSE count

FloorBoxCount_RoundDown(fb_count, floors) == fb_count \div floors

\* (fb_count + floor_count - 1) // floor_count, for floor_count >= 1
FloorBoxCount(fb_count, floors) == (fb_count + floors - 1) \div floors

\* the demo dict after the keynote loop and the floor-box line
KeynoteDemo(words, floors) ==
    [name \in DemoNames |->
        IF name = "Demo Floor Box" THEN FloorBoxCount(FbCount(words), floors)
        ELSE Max(AdjustForFloors(KeynoteCount(words, KeynoteOf(name)), floors), 0)]

\* _estimate_demo_from_text(text, floor_count)
estimate_demo_from_text(text, floors) ==
    [name \in DemoNames |->
        IF name = "Demo Floor Box" THEN 0
        ELSE Max(IsolatedOccurrences(text, KeynoteOf(name)) \div (floors * 2), 0)]

\* extract_demo_items(pdf_path, page_num, floor_count): [raised, demo].  A
\* page that cannot be read raises, and floor_count = 0 raises
\* ZeroDivisionError at the floor-box line
extract_demo_items(pages, page_no, floors) ==
    IF Raises(pages, page_no) \/ floors = 0 THEN [raised |-> TRUE, demo |-> EmptyDict]
    ELSE LET page == PageAt(pages, page_no)
             demo == KeynoteDemo(page.words, floors)
         IN  IF SumValues(demo) < LowConfidenceThreshold
             THEN [raised |-> FALSE,
                   demo |-> [estimate_demo_from_text(page.text, floors) EXCEPT
                                !["Demo Floor Box"] =
                                    FloorBoxCount(FbCount(page.words), floors)]]
             ELSE [raised |-> FALSE, demo |-> demo]

ExtractDemoItems ==
    /\ pc = "start"
    /\ LET r == extract_demo_items(pdf_pages, 0, floor_count)
       IN  /\ extracted' = r.demo
           /\ extract_raised' = r.raised
    /\ pc' = "demo_extracted"
    /\ UNCHANGED <<pdf_pages, floor_count, nonExtractVars>>

-----------------------------------------------------------------------------
(* pdf_extractor.extract_controls and extract_power_devices.                *)

\* the words the loops of extract_controls and extract_power_devices keep
PlanAreaWords(words) == {i \in DOMAIN words : InFloorPlanArea(words[i], 85, 85)}

\* the number of kept words whose upper-cased text is `tag`, narrower than
\* max_width where the code tests the width (0: no test)
TagCount(words, tag, max_width) ==
    Cardinality({i \in PlanAreaWords(words) :
                    /\ Upper(words[i].text) = tag
                    /\ (max_width = 0 \/ words[i].x1 - words[i].x0 < max_width)})

\* oc_count // 2 and the like: the divisor written in the code
FixedFloorDivisor == 2

\* extract_controls(pdf_path, page_num): [raised, controls]
extract_controls(pages, page_no) ==
    IF Raises(pages, page_no) THEN [raised |-> TRUE, controls |-> EmptyDict]
    ELSE LET words == PageAt(pages, page_no).words
             oc_count == TagCount(words, <<"O", "C">>, 0) \div FixedFloorDivisor
             ls_count == TagCount(words, <<"L", "S">>, 0) \div FixedFloorDivisor
             d_count  == TagCount(words, <<"D">>, 20) \div FixedFloorDivisor
         IN  [raised |-> FALSE,
              controls |->
                [k \in {"Ceiling Occupancy Sensor", "Wall Occupancy Sensor",
                        "Daylight Sensor", "Wireless Dimmer"} |->
                    CASE k = "Ceiling Occupancy Sensor" -> IntOfProduct(oc_count, 84, 100)
                      [] k = "Wall Occupancy Sensor" ->
                            oc_count - IntOfProduct(oc_count, 84, 100)
                      [] k = "Daylight Sensor" -> ls_count
                      [] k = "Wireless Dimmer" -> d_count]]

\* r'\b3[5-9]\b|\b4[0-2]\b'
CircuitRefs ==
    <<Bounded(<<One({"3"}), One({"5", "6", "7", "8", "9"})>>),
      Bounded(<<One({"4"}), One({"0", "1", "2"})>>)>>

\* extract_power_devices(pdf_path, page_num): [raised, devices]
extract_power_devices(pages, page_no) ==
    IF Raises(pages, page_no) THEN [raised |-> TRUE, devices |-> EmptyDict]
    ELSE LET page == PageAt(pages, page_no)
             words == page.words
             raw_receptacle_count == FindAllCount(page.text, CircuitRefs, FALSE)
             duplex == Max(raw_receptacle_count, 30)
         IN  [raised |-> FALSE,
              devices |->
                [k \in {"Duplex Receptacle", "GFI Receptacle", "SP Switch",
                        "3-Way Switch", "Smoke Detector", "Horn/Strobe 015",
                        "Horn/Strobe 030", "Pull Station"} |->
                    CASE k = "Duplex Receptacle" -> duplex
                      [] k = "GFI Receptacle" -> Max(duplex \div 8, 5)
                      [] k = "SP Switch" -> 3
                      [] k = "3-Way Switch" -> 2
                      [] k = "Smoke Detector" ->
                            TagCount(words, <<"S">>, 15) \div FixedFloorDivisor
                      [] k = "Horn/Strobe 015" ->
                            TagCount(words, <<"0", "1", "5">>, 0) \div FixedFloorDivisor
                      [] k = "Horn/Strobe 030" ->
                            TagCount(words, <<"0", "3", "0">>, 0) \div FixedFloorDivisor
                      [] k = "Pull Station" ->
                            TagCount(words, <<"F">>, 15) \div FixedFloorDivisor]]

-----------------------------------------------------------------------------
(* pdf_extractor.extract_technology.                                        *)

\* \b s \b for the characters of s
BoundedWord(s) == Bounded(Literal(s))

\* \b s \d? \b
BoundedTag(s) == Bounded(Literal(s) \o <<Opt(Digits)>>)

\* \b d P[KF] \b
BoundedPort(d) == Bounded(<<One({d}), One({"P"}), One({"K", "F"})>>)

\* patterns_jacks: the patterns without \d?, with their jacks
JackPatterns ==
    {<<BoundedWord(<<"W", "P", "1">>), 1>>,
     <<BoundedWord(<<"W", "P", "2">>), 2>>,
     <<BoundedWord(<<"W", "P", "4">>), 4>>,
     <<BoundedWord(<<"2", "C">>), 2>>,
     <<BoundedWord(<<"C", "2">>), 2>>,
     <<BoundedWord(<<"4", "C">>), 4>>,
     <<BoundedWord(<<"C", "4">>), 4>>,
     <<BoundedWord(<<"1", "C">>), 1>>,
     <<BoundedWord(<<"C", "1">>), 1>>,
     <<BoundedWord(<<"1", "P", "W">>), 1>>,
     <<BoundedWord(<<"2", "P", "W">>), 2>>,
     <<BoundedPort("1"), 1>>,
     <<BoundedPort("2"), 2>>,
     <<BoundedPort("4"), 4>>,
     <<BoundedWord(<<"D", "O", "C">>), 1>>,
     <<BoundedWord(<<"S", "S", "C">>), 1>>,
     <<BoundedWord(<<"C", "S", "S">>), 2>>,
     <<Bounded(<<One({"F"}), One({"B"}), Opt({"-", " "}), One({"D"})>>), 4>>,
     <<BoundedWord(<<"D", "F", "B">>), 4>>,
     <<BoundedWord(<<"D", "A", "T", "A">>), 1>>,
     <<BoundedWord(<<"D", "O">>), 1>>}

\* patterns_jacks: the patterns that end in \d?, with their jacks
JackPatternsWithDigit ==
    {<<BoundedTag(<<"K", "P">>), 1>>,
     <<BoundedTag(<<"C", "R">>), 1>>,
     <<BoundedTag(<<"A", "P">>), 2>>,
     <<BoundedTag(<<"C", "A", "M">>), 1>>,
     <<BoundedTag(<<"T", "V">>), 2>>,
     <<BoundedTag(<<"P", "R", "J">>), 2>>,
     <<BoundedTag(<<"C", "O", "M">>), 1>>,
     <<BoundedTag(<<"W", "S">>), 2>>}

\* what one kept word adds to data_word_count
DataWordJacks(word) ==
    LET text_val == Upper(word.text)
    IN  IF text_val \in {<<"D">>, <<"D", "A", "T", "A">>} /\ word.x1 - word.x0 < 25 THEN 1
        ELSE IF text_val \in {<<"2", "C">>, <<"4", "C">>} THEN DigitValue(text_val[1])
        ELSE IF text_val \in {<<"C", "2">>, <<"C", "4">>} THEN 2
        ELSE 0

\* raw_jacks = max(total_jacks, data_word_count): total_jacks is, over the
\* patterns, the matches of the pattern in the text of the page
\* (re.IGNORECASE) times its jacks; data_word_count is what the kept words add
RawJacks(page) ==
    LET total_jacks ==
            SumValues([p \in JackPatterns \cup JackPatternsWithDigit |->
                          FindAllCount(page.text, <<p[1]>>, TRUE) * p[2]])
        kept == {i \in DOMAIN page.words : InFloorPlanArea(page.words[i], 85, 90)}
        Adding(n) == Cardinality({i \in kept : DataWordJacks(page.words[i]) = n})
        data_word_count == Adding(1) + 2 * Adding(2) + 4 * Adding(4)
    IN  Max(total_jacks, data_word_count)

\* the result of extract_technology for the floor boxes and the raw jacks
\* found on the page: with a floor box in the text, floor_count = 0 raises
\* ZeroDivisionError
TechnologyOf(fb_count, raw_jacks, floors) ==
    LET adjusted_jacks == AdjustForFloors(raw_jacks, floors)
        data_fb_jacks ==
            IF fb_count > 0
            THEN DoubleTrunc(DoubleOver(DoubleTimes(DoubleOfInt(fb_count),
                                                    DoubleOfRatio(4, 10)),
                                        floors)) * 4
            ELSE 0
    IN  IF fb_count > 0 /\ floors = 0 THEN [raised |-> TRUE, tech |-> EmptyDict]
        ELSE [raised |-> FALSE,
              tech |-> [k \in {"Cat 6 Jack", "Floor Box"} |->
                          IF k = "Cat 6 Jack" THEN adjusted_jacks + data_fb_jacks
                          ELSE 0]]

\* extract_technology(pdf_path, page_num, floor_count): [raised, tech].  A
\* page index at or past the number of pages gives zeros
extract_technology(pages, page_no, floors) ==
    IF page_no >= Len(pages)
    THEN [raised |-> FALSE, tech |-> [k \in {"Cat 6 Jack", "Floor Box"} |-> 0]]
    ELSE IF Raises(pages, page_no) THEN [raised |-> TRUE, tech |-> EmptyDict]
    ELSE TechnologyOf(FindAllCount(PageAt(pages, page_no).text,
                                   <<BoundedWord(<<"F", "B">>)>>, FALSE),
                      RawJacks(PageAt(pages, page_no)), floors)

\* the jacks a further technology sheet adds: none when its extraction raised
JacksOf(r) == IF r.raised THEN 0 ELSE r.tech["Cat 6 Jack"]

\* the result for the T200 page with the jacks of the other sheets added
WithAdditionalJacks(r, additional_jacks) ==
    IF r.raised THEN r
    ELSE [raised |-> FALSE,
          tech |-> [r.tech EXCEPT !["Cat 6 Jack"] = @ + additional_jacks]]

\* extract_technology_enhanced(pdf_path, t200_page, sheet_map, floor_count):
\* the jacks of the T200 page and of the page of every other sheet of the map
\* whose number starts with T, a sheet that raises adding nothing
extract_technology_enhanced(pages, t200_page, map, floors) ==
    LET others == {s \in DOMAIN map :
                      Len(s) >= 1 /\ s[1] = "T" /\ s # <<"T", "2", "0", "0">>}
    IN  WithAdditionalJacks(
            extract_technology(pages, t200_page, floors),
            SumValues([s \in others |->
                          JacksOf(extract_technology(pages, map[s], floors))]))

-----------------------------------------------------------------------------
(* pdf_extractor.extract_fixture_counts: DOUBLED_FIXTURE_REGEX.findall on   *)
(* the text of the page.                                                    *)

\* FIXTURE_PATTERNS: doubled tag, fixture type
FIXTURE_PATTERNS ==
    {<<<<"F", "F", "2", "2">>, "F2">>,
     <<<<"F", "F", "3", "3">>, "F3">>,
     <<<<"F", "F", "4", "4">>, "F4">>,
     <<<<"F", "F", "4", "4", "E", "E">>, "F4E">>,
     <<<<"F", "F", "5", "5">>, "F5">>,
     <<<<"F", "F", "7", "7">>, "F7">>,
     <<<<"F", "F", "7", "7", "E", "E">>, "F7E">>,
     <<<<"F", "F", "8", "8">>, "F8">>,
     <<<<"F", "F", "9", "9">>, "F9">>,
     <<<<"F", "F", "1", "1", "0", "0">>, "F10">>,
     <<<<"F", "F", "1", "1", "1", "1">>, "F11">>,
     <<<<"X", "X", "1", "1">>, "X1">>,
     <<<<"X", "X", "2", "2">>, "X2">>,
     <<<<"F", "F", "F", "F", "5", "5", "5", "5">>, "F5">>,
     <<<<"X", "X", "X", "X", "1", "1", "1", "1">>, "X1">>,
     <<<<"X", "X", "X", "X", "2", "2", "2", "2">>, "X2">>}

\* the alternatives of DOUBLED_FIXTURE_REGEX in the order the regex tries them
DoubledFixtureAlternatives ==
    <<<<"F", "F", "F", "F", "5", "5", "5", "5">>,
      <<"X", "X", "X", "X", "1", "1", "1", "1">>,
      <<"X", "X", "X", "X", "2", "2", "2", "2">>,
      <<"F", "F", "1", "1", "0", "0">>,
      <<"F", "F", "1", "1", "1", "1">>,
      <<"F", "F", "4", "4", "E", "E">>,
      <<"F", "F", "7", "7", "E", "E">>,
      <<"F", "F", "2", "2">>,
      <<"F", "F", "3", "3">>,
      <<"F", "F", "4", "4">>,
      <<"F", "F", "5", "5">>,
      <<"F", "F", "7", "7">>,
      <<"F", "F", "8", "8">>,
      <<"F", "F", "9", "9">>,
      <<"X", "X", "1", "1">>,
      <<"X", "X", "2", "2">>>>

\* alternative `a` matches at position i of the text (re.IGNORECASE)
MatchesAt(text, i, a) ==
    /\ i + Len(a) - 1 <= Len(text)
    /\ FoldCase(SubSeq(text, i, i + Len(a) - 1)) = a

\* the last alternative that matches at i (0: none)
AlternativeAt_LastListed(text, i) ==
    LET ok == {n \in DOMAIN DoubledFixtureAlternatives :
                  MatchesAt(text, i, DoubledFixtureAlternatives[n])}
    IN  IF ok = {} THEN 0 ELSE CHOOSE n \in ok : \A m \in ok : m <= n

\* the alternative the regex takes at i: the first one that matches (0: none)
AlternativeAt(text, i) ==
    LET ok == {n \in DOMAIN DoubledFixtureAlternatives :
                  MatchesAt(text, i, DoubledFixtureAlternatives[n])}
    IN  IF ok = {} THEN 0 ELSE CHOOSE n \in ok : \A m \in ok : n <= m

\* findall from position i on, `starts` being the positions at which an
\* alternative matches: leftmost matches, each search resuming after the
\* previous match; a match is [pos, text] with the text as it stands
RECURSIVE FindAllFrom(_, _, _)
FindAllFrom(text, starts, i) ==
    LET left == {j \in starts : j >= i}
    IN  IF left = {} THEN <<>>
        ELSE LET s == CHOOSE j \in left : \A k \in left : j <= k
                 len == Len(DoubledFixtureAlternatives[AlternativeAt(text, s)])
             IN  <<[pos |-> s, text |-> SubSeq(text, s, s + len - 1)]>>
                     \o FindAllFrom(text, starts, s + len)

\* DOUBLED_FIXTURE_REGEX.findall(text)
FindAll(text) ==
    FindAllFrom(text, {j \in 1..Len(text) : AlternativeAt(text, j) # 0}, 1)

\* FIXTURE_PATTERNS[match.upper()] ("": not a key)
FixtureTypeOf(match) ==
    LET hit == {p \in FIXTURE_PATTERNS : p[1] = Upper(match)}
    IN  IF hit = {} THEN "" ELSE (CHOOSE p \in hit : TRUE)[2]

\* the counts the loop over the matches of the text builds, as a dict: a key
\* for every type that was matched
TagCounts(text) ==
    LET matches == FindAll(text)
        types == {FixtureTypeOf(matches[j].text) : j \in DOMAIN matches} \ {""}
    IN  [t \in types |->
            Cardinality({j \in DOMAIN matches : FixtureTypeOf(matches[j].text) = t})]

\* extract_fixture_counts(pdf_path, page_num): [raised, counts].  A page
\* index at or past the number of pages raises ValueError
extract_fixture_counts(pages, page_no) ==
    IF Raises(pages, page_no) THEN [raised |-> TRUE, counts |-> EmptyDict]
    ELSE [raised |-> FALSE, counts |-> TagCounts(PageAt(pages, page_no).text)]

-----------------------------------------------------------------------------
(* The calls of the extraction functions on the first page of a document,   *)
(* and extract_demo_items_enhanced.                                         *)

ExtractControls ==
    /\ pc = "start"
    /\ LET r == extract_controls(pdf_pages, 0)
       IN  /\ extracted' = r.controls
           /\ extract_raised' = r.raised
    /\ pc' = "controls_extracted"
    /\ UNCHANGED <<pdf_pages, floor_count, nonExtractVars>>

ExtractPowerDevices ==
    /\ pc = "start"
    /\ LET r == extract_power_devices(pdf_pages, 0)
       IN  /\ extracted' = r.devices
           /\ extract_raised' = r.raised
    /\ pc' = "power_extracted"
    /\ UNCHANGED <<pdf_pages, floor_count, nonExtractVars>>

ExtractTechnology ==
    /\ pc = "start"
    /\ LET r == extract_technology(pdf_pages, 0, floor_count)
       IN  /\ extracted' = r.tech
           /\ extract_raised' = r.raised
    /\ pc' = "technology_extracted"
    /\ UNCHANGED <<pdf_pages, floor_count, nonExtractVars>>

ExtractFixtureCounts ==
    /\ pc = "start"
    /\ LET r == extract_fixture_counts(pdf_pages, 0)
       IN  /\ extracted' = r.counts
           /\ extract_raised' = r.raised
    /\ pc' = "fixtures_extracted"
    /\ UNCHANGED <<pdf_pages, floor_count, nonExtractVars>>

\* r"2['\"]?\s*[xX]\s*4['\"]?" and the same with 2 for 4
DimensionPatterns(d) ==
    <<<<One({"2"}), Opt({"'", "\""}), Star(Whitespace), One({"x", "X"}),
        Star(Whitespace), One({d}), Opt({"'", "\""})>>>>

\* the counts of the basic extraction raised to the minimum of every kind
\* that the text of the page names and the basic extraction did not count;
\* each re.search is made in the text of the page
EnhancedDemo(demo, text) ==
    LET strip == demo["Demo 8' Strip"]
        Enhanced(name, regex, fold, minimum) ==
            IF Search(text, regex, fold) /\ demo[name] = 0 THEN minimum ELSE demo[name]
    IN  [name \in DOMAIN demo |->
            CASE name = "Demo 2'x4' Recessed" ->
                    Enhanced(name, DimensionPatterns("4"), FALSE, Max(strip \div 4, 7))
              [] name = "Demo 2'x2' Recessed" ->
                    Enhanced(name, DimensionPatterns("2"), FALSE, Max(strip \div 2, 12))
              [] name = "Demo Downlight" ->
                    Enhanced(name,
                             <<Literal(<<"D", "O", "W", "N">>) \o <<Star(Whitespace)>>
                                   \o Literal(<<"L", "I", "G", "H", "T">>),
                               Literal(<<"R", "E", "C", "E", "S", "S", "E", "D">>)
                                   \o <<Star(Whitespace)>>
                                   \o Literal(<<"D", "O", "W", "N">>)>>,
                             TRUE, Max(strip \div 2, 12))
              [] name = "Demo Exit" ->
                    Enhanced(name, <<Literal(<<"E", "X", "I", "T">>)>>, TRUE, 2)
              [] name = "Demo Receptacle" ->
                    Enhanced(name, <<Literal(<<"R", "E", "C", "E", "P", "T">>),
                                     Literal(<<"O", "U", "T", "L", "E", "T">>)>>,
                             TRUE, 13)
              [] name = "Demo Switch" ->
                    Enhanced(name, <<Literal(<<"S", "W", "I", "T", "C", "H">>),
                                     Literal(<<"T", "O", "G", "G", "L", "E">>)>>,
                             TRUE, 2)
              [] OTHER -> demo[name]]

\* what extract_demo_items_enhanced makes of the result r of the basic
\* extraction
EnhanceDemo(r, pages, e100_page) ==
    IF r.raised THEN r
    ELSE IF e100_page >= Len(pages) THEN r
    ELSE [raised |-> FALSE, demo |-> EnhancedDemo(r.demo, PageAt(pages, e100_page).text)]

\* extract_demo_items_enhanced(pdf_path, e100_page, sheet_map, floor_count):
\* [raised, demo]
extract_demo_items_enhanced(pages, e100_page, floors) ==
    EnhanceDemo(extract_demo_items(pages, e100_page, floors), pages, e100_page)

-----------------------------------------------------------------------------
(* pdf_extractor.extract_conduit_lengths.  A path is [width, items]; a      *)
(* width is in eighths of a point, so that width <= w * 1.5 is exact in     *)
(* binary floating point as well, and NoWidth stands for a path without a   *)
(* 'width' key.  An item is [type, dx, dy] in points, of integer length.   *)
(* The feet of a size are accumulated in a float, segment by segment in     *)
(* drawing order, and truncated at the end.                                 *)

NoWidth == -1

\* drawing.get('width', 0.5)
PathWidth(path) == IF path.width = NoWidth THEN 4 ELSE path.width

\* the default width_mapping: 0.25, 0.5, 0.75, 1.0 and 1.5 points
DefaultWidthMapping ==
    [w \in {2, 4, 6, 8, 12} |->
        CASE w \in {2, 4} -> "3/4\""
          [] w \in {6, 8} -> "1\""
          [] w = 12 -> "1-1/4\""]

\* scale_factor = 8 / 72 feet per point: 9 points are one foot
PointsPerFoot == 9

scale_factor == DoubleOfRatio(8, 72)

\* the first threshold of sorted(width_mapping.items()) with
\* width <= w * 1.5, else the default size
ConduitSizeOf_LargestThreshold(width, mapping) ==
    LET ok == {w \in DOMAIN mapping : 2 * width <= 3 * w}
    IN  IF ok = {} THEN "3/4\""
        ELSE mapping[CHOOSE w \in ok : \A v \in ok : v <= w]

ConduitSizeOf(width, mapping) ==
    LET ok == {w \in DOMAIN mapping : 2 * width <= 3 * w}
    IN  IF ok = {} THEN "3/4\""
        ELSE mapping[CHOOSE w \in ok : \A v \in ok : w <= v]

\* (dx**2 + dy**2) ** 0.5 for a segment of integer length
LengthPoints(item) ==
    LET sq == item.dx * item.dx + item.dy * item.dy
    IN  CHOOSE n \in 0..(Abs(item.dx) + Abs(item.dy)) : n * n = sq

\* the line segments of a path
LineItems(path) == {i \in DOMAIN path.items : path.items[i].type = "l"}

\* the points one path adds to its size
PathPoints(path) ==
    SumValues([i \in LineItems(path) |-> LengthPoints(path.items[i])])

RECURSIVE PathFeet(_, _, _)
\* conduit_lengths[conduit_size] += length_points * scale_factor, for the
\* line segments among the first n items of a path
PathFeet(path, n, feet) ==
    IF n = 0 THEN feet
    ELSE LET before == PathFeet(path, n - 1, feet)
         IN  IF path.items[n].type = "l"
             THEN DoublePlus(before,
                             DoubleTimes(DoubleOfInt(LengthPoints(path.items[n])),
                                         scale_factor))
             ELSE before

RECURSIVE SizeFeet(_, _, _, _)
\* the float accumulated for a size over the first n drawings
SizeFeet(paths, mapping, size, n) ==
    IF n = 0 THEN DoubleOfInt(0)
    ELSE LET before == SizeFeet(paths, mapping, size, n - 1)
         IN  IF ConduitSizeOf(PathWidth(paths[n]), mapping) = size
             THEN PathFeet(paths[n], Len(paths[n].items), before)
             ELSE before

\* extract_conduit_lengths(pdf_path, page_num, width_mapping): the sizes are
\* those of the paths with a line segment, each with int() of its feet
extract_conduit_lengths(paths, mapping) ==
    LET with_lines == {j \in DOMAIN paths : LineItems(paths[j]) # {}}
        sizes == {ConduitSizeOf(PathWidth(paths[j]), mapping) : j \in with_lines}
    IN  [size \in sizes |-> DoubleTrunc(SizeFeet(paths, mapping, size, Len(paths)))]

ExtractConduitLengths ==
    /\ pc = "start"
    /\ vector_lengths' = extract_conduit_lengths(drawings, width_mapping)
    /\ pc' = "lengths_extracted"
    /\ UNCHANGED <<drawings, width_mapping, page_num, nonVectorVars>>

-----------------------------------------------------------------------------
(* routing_analyzer: estimate_conduit_from_pdf_vectors, the device-based    *)
(* estimate, the wire calculation and analyze_routing_complete.  A document *)
(* is [source, pages]: source says whether fitz is installed ("no_fitz"),   *)
(* opening or reading raises ("error") or the pages can be read ("ok");     *)
(* pages[n + 1] holds the drawings of page n.                               *)

\* estimate_conduit_from_pdf_vectors(pdf_path, page_num).conduit_by_size:
\* ImportError, the IndexError of a page out of range and any other
\* exception of extract_conduit_lengths give an empty ConduitCounts
estimate_conduit_from_pdf_vectors(doc, n) ==
    IF doc.source # "ok" \/ n >= Len(doc.pages) THEN EmptyDict
    ELSE extract_conduit_lengths(doc.pages[n + 1], DefaultWidthMapping)

EstimateConduitFromPdfVectors ==
    /\ pc = "start"
    /\ \E n \in {2, 3} :
        /\ page_num' = n
        /\ vector_lengths' = estimate_conduit_from_pdf_vectors(pdf_doc, n)
    /\ pc' = "vectors_estimated"
    /\ UNCHANGED <<drawings, width_mapping, nonVectorVars>>

\* derive_all_materials called with the vector lengths as conduit_lengths
DeriveFromVectorLengths ==
    /\ pc = "vectors_estimated"
    /\ LET snapshot == [none |-> FALSE, items |-> vector_lengths]
       IN  /\ conduit_lengths' = snapshot
           /\ derived' = derive_all_materials(counts, snapshot, include_fittings,
                                              include_consumables, include_wire)
    /\ pc' = "derived_from_vectors"
    /\ UNCHANGED <<counts, include_fittings, include_consumables, include_wire, omitted,
                   derived_partial, engine_boxes, nonDeriveVars>>

\* sum(counts.get(k, 0) for k in keys)
SumOfKeys(cnt, keys) == SumValues([k \in keys |-> Get(cnt, k, 0)])

count_lighting_devices(cnt) ==
    SumOfKeys(cnt, {"F2", "F3", "F4", "F4E", "F5", "F7", "F7E", "F8", "F9", "X1", "X2",
                    "Ceiling Occupancy Sensor", "Daylight Sensor"})

count_power_devices(cnt) ==
    SumOfKeys(cnt, {"Duplex Receptacle", "GFI Receptacle", "SP Switch", "3-Way Switch"})

count_control_devices(cnt) ==
    SumOfKeys(cnt, {"Wall Occupancy Sensor", "Wireless Dimmer", "Daylight Sensor"})

\* estimate_conduit_from_devices(device_counts, building_sqft, floors=2)
\* .conduit_by_size
estimate_conduit_from_devices(cnt, sqft) ==
    LET lighting_devices == count_lighting_devices(cnt)
        power_devices == count_power_devices(cnt)
        control_devices == count_control_devices(cnt)
        lighting_circuits == Max(1, lighting_devices \div 8)
        power_circuits == Max(1, power_devices \div 5)
        vertical_runs == (2 - 1) * 50
        conduit_12 == control_devices * 15
        conduit_34 == Max(lighting_devices * 25, lighting_circuits * 250) + vertical_runs
        conduit_1 == Max(power_devices * 30, power_circuits * 150)
        conduit_114 == sqft \div 15
    IN  [size \in {"1/2\"", "3/4\"", "1\"", "1-1/4\""} |->
            CASE size = "1/2\"" -> Max(conduit_12, 50)
              [] size = "3/4\"" -> Max(conduit_34, 500)
              [] size = "1\"" -> Max(conduit_1, 200)
              [] size = "1-1/4\"" -> Max(conduit_114, 100)]

(* Lengths in the routing analysis.  A length is [kind, n]: a number of n   *)
(* feet ("number"), or the float json.loads gives for Infinity ("inf").  A  *)
(* value of an AI answer can also be null, a string or a list ("other"),    *)
(* which `+` cannot add to a number.                                        *)
Number(n) == [kind |-> "number", n |-> n]
Infinity == [kind |-> "inf", n |-> 0]
JsonNull == [kind |-> "other", n |-> 0]

\* a dict of whole feet as a dict of lengths
Numbers(d) == [size \in DOMAIN d |-> Number(d[size])]

\* a + b for two lengths
PlusLength(a, b) ==
    IF a.kind = "inf" \/ b.kind = "inf" THEN Infinity ELSE Number(a.n + b.n)

\* calculate_wire_from_conduit(conduit_counts): int() of the float products
\* with the multipliers 3.0, 2.3, 8.4 and 0.08; for some lengths the result
\* is one less than the whole part of the exact product (100 * 2.3 gives 229);
\* int() of an infinite product raises OverflowError
calculate_wire_from_conduit(conduit) ==
    LET total_12 == Get(conduit, "1/2\"", Number(0))
        total_34 == Get(conduit, "3/4\"", Number(0))
        total_1 == Get(conduit, "1\"", Number(0))
        total_114 == Get(conduit, "1-1/4\"", Number(0))
        gauges == (IF total_12.n > 0 THEN {"#14 THHN"} ELSE {}) \cup
                  (IF total_34.n > 0 THEN {"#12 THHN"} ELSE {}) \cup
                  (IF total_1.n > 0 THEN {"#10 THHN"} ELSE {}) \cup
                  (IF total_114.n > 0 THEN {"#8 THHN"} ELSE {})
    IN  IF "inf" \in {total_12.kind, total_34.kind, total_1.kind, total_114.kind}
        THEN [raised |-> TRUE, wire |-> EmptyDict]
        ELSE [raised |-> FALSE,
              wire |-> [g \in gauges |->
                          CASE g = "#14 THHN" -> IntOfProduct(total_12.n, 30, 10)
                            [] g = "#12 THHN" -> IntOfProduct(total_34.n, 23, 10)
                            [] g = "#10 THHN" -> IntOfProduct(total_1.n, 84, 10)
                            [] g = "#8 THHN" -> IntOfProduct(total_114.n, 8, 100)]]

\* combined[size] = combined.get(size, 0) + length, for every item of `more`
AddLengths(combined, more) ==
    [size \in (DOMAIN combined) \cup (DOMAIN more) |->
        IF size \in DOMAIN more
        THEN PlusLength(Get(combined, size, Number(0)), more[size])
        ELSE combined[size]]

RECURSIVE MergeAnswer(_, _, _)
\* the merge loop over the items of an AI answer from item i on, in the order
\* of the answer: an item that is not a number raises TypeError, and what the
\* items before it added stays in combined_conduit
MergeAnswer(combined, items, i) ==
    IF i > Len(items) THEN [conduit |-> combined, raised |-> FALSE]
    ELSE IF items[i][2].kind = "other" THEN [conduit |-> combined, raised |-> TRUE]
    ELSE MergeAnswer(AddLengths(combined, items[i][1] :> items[i][2]), items, i + 1)

\* the first block naming pdf_vectors whenever the extraction was tried
TryPdfVectors_MethodAlways ==
    /\ pc = "start"
    /\ IF use_pdf_vectors /\ pdf_path_given
       THEN /\ combined_conduit' =
                    AddLengths(AddLengths(combined_conduit,
                                          Numbers(estimate_conduit_from_pdf_vectors(pdf_doc, 2))),
                               Numbers(estimate_conduit_from_pdf_vectors(pdf_doc, 3)))
            /\ estimated_method' = "pdf_vectors"
            /\ consulted' = Append(consulted, "pdf_vectors")
       ELSE UNCHANGED <<combined_conduit, estimated_method, consulted>>
    /\ ai_enabled' = use_ai
    /\ pc' = "vectors_tried"
    /\ UNCHANGED <<routingInputs, routing, nonRoutingVars>>

\* analyze_routing_complete, first block: PDF vector extraction
TryPdfVectors ==
    /\ pc = "start"
    /\ IF use_pdf_vectors /\ pdf_path_given
       THEN LET e200_conduit == Numbers(estimate_conduit_from_pdf_vectors(pdf_doc, 2))
                e201_conduit == Numbers(estimate_conduit_from_pdf_vectors(pdf_doc, 3))
                combined == AddLengths(AddLengths(combined_conduit, e200_conduit),
                                       e201_conduit)
            IN  /\ combined_conduit' = combined
                /\ estimated_method' =
                        IF DOMAIN combined # {} THEN "pdf_vectors" ELSE estimated_method
                /\ consulted' = Append(consulted, "pdf_vectors")
       ELSE UNCHANGED <<combined_conduit, estimated_method, consulted>>
    /\ ai_enabled' = use_ai
    /\ pc' = "vectors_tried"
    /\ UNCHANGED <<routingInputs, routing, nonRoutingVars>>

\* second block: the AI call for E200 and the merge of its answer, both
\* inside the try; the except clause only sets use_ai = False
TryAiE200 ==
    /\ pc = "vectors_tried"
    /\ IF DOMAIN combined_conduit = {} /\ ai_enabled
       THEN /\ consulted' = Append(consulted, "ai_e200")
            /\ IF ai_e200.raised
               THEN /\ ai_enabled' = FALSE
                    /\ UNCHANGED <<combined_conduit, estimated_method>>
               ELSE LET merged == MergeAnswer(combined_conduit, ai_e200.conduit, 1)
                    IN  /\ combined_conduit' = merged.conduit
                        /\ IF merged.raised
                           THEN ai_enabled' = FALSE /\ UNCHANGED estimated_method
                           ELSE estimated_method' = "ai_vision" /\ UNCHANGED ai_enabled
       ELSE UNCHANGED <<combined_conduit, estimated_method, consulted, ai_enabled>>
    /\ pc' = "e200_tried"
    /\ UNCHANGED <<routingInputs, routing, nonRoutingVars>>

\* the AI call for E201 made although the call for E200 failed
TryAiE201_AfterFailure ==
    /\ pc = "e200_tried"
    /\ IF Len(consulted) > 0 /\ consulted[Len(consulted)] = "ai_e200"
       THEN /\ consulted' = Append(consulted, "ai_e201")
            /\ IF ai_e201.raised
               THEN UNCHANGED combined_conduit
               ELSE combined_conduit' =
                        MergeAnswer(combined_conduit, ai_e201.conduit, 1).conduit
       ELSE UNCHANGED <<combined_conduit, consulted>>
    /\ pc' = "e201_tried"
    /\ UNCHANGED <<routingInputs, estimated_method, ai_enabled, routing, nonRoutingVars>>

\* the AI call for E201 and the merge of its answer, inside the second block
\* under `if use_ai`; its except clause changes nothing
TryAiE201 ==
    /\ pc = "e200_tried"
    /\ IF Len(consulted) > 0 /\ consulted[Len(consulted)] = "ai_e200" /\ ai_enabled
       THEN /\ consulted' = Append(consulted, "ai_e201")
            /\ IF ai_e201.raised
               THEN UNCHANGED combined_conduit
               ELSE combined_conduit' =
                        MergeAnswer(combined_conduit, ai_e201.conduit, 1).conduit
       ELSE UNCHANGED <<combined_conduit, consulted>>
    /\ pc' = "e201_tried"
    /\ UNCHANGED <<routingInputs, estimated_method, ai_enabled, routing, nonRoutingVars>>

\* third block: the device-based estimate
UseDeviceEstimate ==
    /\ pc = "e201_tried"
    /\ IF DOMAIN combined_conduit = {}
       THEN /\ combined_conduit' =
                    Numbers(estimate_conduit_from_devices(counts, building_sqft))
            /\ estimated_method' = "device_based"
            /\ consulted' = Append(consulted, "device_based")
       ELSE UNCHANGED <<combined_conduit, estimated_method, consulted>>
    /\ pc' = "devices_tried"
    /\ UNCHANGED <<routingInputs, ai_enabled, routing, nonRoutingVars>>

\* the wire calculation and the return; when the wire calculation raises,
\* analyze_routing_complete raises and returns nothing
ReturnRouting ==
    /\ pc = "devices_tried"
    /\ LET wire == calculate_wire_from_conduit(combined_conduit)
       IN  IF wire.raised
           THEN pc' = "routing_raised" /\ UNCHANGED routing
           ELSE /\ routing' = [conduit_by_size |-> combined_conduit,
                               wire_by_size |-> wire.wire,
                               estimated_method |-> estimated_method]
                /\ pc' = "routing_returned"
    /\ UNCHANGED <<routingInputs, combined_conduit, estimated_method, ai_enabled,
                   consulted, nonRoutingVars>>

\* TakeOffSystem.analyze_routing, the except clause around the call of
\* analyze_routing_complete: the device-based estimate, no wire
RecoverRouting ==
    /\ pc = "routing_raised"
    /\ routing' = [conduit_by_size |->
                        Numbers(estimate_conduit_from_devices(counts, building_sqft)),
                   wire_by_size |-> EmptyDict,
                   estimated_method |-> "device_based"]
    /\ pc' = "routing_recovered"
    /\ UNCHANGED <<routingInputs, combined_conduit, estimated_method, ai_enabled,
                   consulted, nonRoutingVars>>

\* RoutingData(): TakeOffSystem.routing after construction
NoRouting == [conduit_by_size |-> EmptyDict, wire_by_size |-> EmptyDict,
              estimated_method |-> "ai_vision"]

\* manual_conduit_input: the lengths given above zero by size, and the wire
\* calculated from them
manual_conduit_input(conduit_34, conduit_1, conduit_114, conduit_112) ==
    LET given == ("3/4\"" :> conduit_34) @@ ("1\"" :> conduit_1) @@
                 ("1-1/4\"" :> conduit_114) @@ ("1-1/2\"" :> conduit_112)
        conduit_by_size == [size \in {k \in DOMAIN given : given[k] > 0} |->
                                Number(given[size])]
    IN  [conduit_by_size |-> conduit_by_size,
         wire_by_size |-> calculate_wire_from_conduit(conduit_by_size).wire]

\* main.run_quick_test on a new TakeOffSystem: analyze_routing is skipped,
\* the routing is the manual input of 3773 feet of 3/4" and 790 feet of 1"
\* conduit under the method "manual"
run_quick_test ==
    /\ pc = "start"
    /\ routing = NoRouting
    /\ LET conduit == manual_conduit_input(3773, 790, 0, 0)
       IN  routing' = [conduit_by_size |-> conduit.conduit_by_size,
                       wire_by_size |-> conduit.wire_by_size,
                       estimated_method |-> "manual"]
    /\ pc' = "quick_test_done"
    /\ UNCHANGED <<routingInputs, combined_conduit, estimated_method, ai_enabled,
                   consulted, nonRoutingVars>>

-----------------------------------------------------------------------------
(* Project configuration: config.ProjectConfig.sheet_map                    *)

\* the `defaults` dict of get_sheet_page
DefaultSheetPages ==
    (<<"E", "0", "0", "1">> :> 0) @@ (<<"E", "1", "0", "0">> :> 1) @@
    (<<"E", "2", "0", "0">> :> 2) @@ (<<"E", "2", "0", "1">> :> 3) @@
    (<<"E", "6", "0", "0">> :> 4) @@ (<<"E", "7", "0", "0">> :> 5) @@
    (<<"E", "7", "0", "1">> :> 6) @@ (<<"T", "1", "0", "0">> :> 7) @@
    (<<"T", "2", "0", "0">> :> 8)

get_sheet_page(map, code) ==
    LET sheet_upper == Upper(code)
    IN  IF sheet_upper \in DOMAIN map THEN map[sheet_upper]
        ELSE IF sheet_upper \in DOMAIN DefaultSheetPages THEN DefaultSheetPages[sheet_upper]
        ELSE -1

\* the loop of update_sheet_map: a detected sheet is stored only under a
\* key the map does not have
update_sheet_map(map, detected) ==
    [k \in DOMAIN map \cup DOMAIN detected |->
        IF k \in DOMAIN map THEN map[k] ELSE detected[k]]

GetSheetPage(code) ==
    /\ sheet_query' = code
    /\ sheet_page' = get_sheet_page(sheet_map, code)
    /\ pc' = "sheet_page_returned"
    /\ UNCHANGED <<sheet_map, detected_map, map_updates, nonSheetMapVars>>

UpdateSheetMap(detected) ==
    /\ detected_map' = detected
    /\ sheet_map' = update_sheet_map(sheet_map, detected)
    /\ map_updates' = map_updates + 1
    /\ pc' = "sheet_map_updated"
    /\ UNCHANGED <<sheet_query, sheet_page, nonSheetMapVars>>

\* the same detected map applied a second time
UpdateSheetMapAgain ==
    /\ pc = "sheet_map_updated"
    /\ sheet_map' = update_sheet_map(sheet_map, detected_map)
    /\ map_updates' = map_updates + 1
    /\ pc' = "sheet_map_reapplied"
    /\ UNCHANGED <<detected_map, sheet_query, sheet_page, nonSheetMapVars>>

-----------------------------------------------------------------------------
(* Pendant fixtures: pdf_extractor.count_pendants_from_floor_plans.         *)
(* floor_pages maps a floor name to a page index; a page index at or past   *)
(* the number of pages is skipped; every pattern is matched in the text of  *)
(* the page.                                                                *)

\* tag[- ]?size
SizedTag(tag, size) == Literal(tag) \o <<Opt({"-", " "})>> \o size

\* a\s*[Xx]\s*b
Square(a, b) ==
    Literal(a) \o <<Star(Whitespace), One({"X", "x"}), Star(Whitespace)>> \o Literal(b)

\* specific_patterns: the pattern of every type for the two tags
SpecificPatterns(tag10, tag11) ==
    [type \in {"F10-22", "F10-30", "F11-4X4", "F11-6X6", "F11-8X8", "F11-10X10",
               "F11-16X10"} |->
        CASE type = "F10-22" -> SizedTag(tag10, Literal(<<"2", "2">>))
          [] type = "F10-30" -> SizedTag(tag10, Literal(<<"3", "0">>))
          [] type = "F11-4X4" -> SizedTag(tag11, Square(<<"4">>, <<"4">>))
          [] type = "F11-6X6" -> SizedTag(tag11, Square(<<"6">>, <<"6">>))
          [] type = "F11-8X8" -> SizedTag(tag11, Square(<<"8">>, <<"8">>))
          [] type = "F11-10X10" -> SizedTag(tag11, Square(<<"1", "0">>, <<"1", "0">>))
          [] type = "F11-16X10" -> SizedTag(tag11, Square(<<"1", "6">>, <<"1", "0">>))]

\* len(re.findall(pattern, text, re.IGNORECASE))
PatternMatches(text, pattern) == FindAllCount(text, <<pattern>>, TRUE)

\* the types the size-specific patterns are listed for
PendantTypes ==
    {"F10-22", "F10-30", "F11-4X4", "F11-6X6", "F11-8X8", "F11-10X10", "F11-16X10"}

\* the size-specific matches of a type in the text of a page: both of its
\* patterns
SpecificMatches(text, type) ==
    PatternMatches(text, SpecificPatterns(<<"F", "1", "0">>, <<"F", "1", "1">>)[type])
        + PatternMatches(text, SpecificPatterns(<<"F", "F", "1", "1", "0", "0">>,
                                                <<"F", "F", "1", "1", "1", "1">>)[type])

DistributedPendants_ShortRoundedUp(f10_total, f11_total) ==
    LET f10_22 == Max(2, IntOfProduct(f10_total, 6, 10))
        f11_4 == Max(1, IntOfProduct(f11_total, 31, 100))
        f11_6 == Max(1, IntOfProduct(f11_total, 23, 100))
        f11_8 == Max(1, IntOfProduct(f11_total, 15, 100))
        f11_10 == Max(1, IntOfProduct(f11_total, 23, 100))
        f10 == IF f10_total > 0
               THEN ("F10-22" :> f10_22) @@ ("F10-30" :> f10_total - f10_22)
               ELSE EmptyDict
        f11 == IF f11_total > 0
               THEN ("F11-4X4" :> f11_4) @@ ("F11-6X6" :> f11_6) @@ ("F11-8X8" :> f11_8) @@
                    ("F11-10X10" :> f11_10) @@
                    ("F11-16X10" :> Max(1, f11_total - (f11_4 + f11_6 + f11_8 + f11_10)))
               ELSE EmptyDict
    IN  f10 @@ f11

\* the distribution of the raw totals when no size was found
DistributedPendants(f10_total, f11_total) ==
    LET f10_22 == Max(1, IntOfProduct(f10_total, 6, 10))
        f11_4 == Max(1, IntOfProduct(f11_total, 31, 100))
        f11_6 == Max(1, IntOfProduct(f11_total, 23, 100))
        f11_8 == Max(1, IntOfProduct(f11_total, 15, 100))
        f11_10 == Max(1, IntOfProduct(f11_total, 23, 100))
        f10 == IF f10_total > 0
               THEN ("F10-22" :> f10_22) @@ ("F10-30" :> f10_total - f10_22)
               ELSE EmptyDict
        f11 == IF f11_total > 0
               THEN ("F11-4X4" :> f11_4) @@ ("F11-6X6" :> f11_6) @@ ("F11-8X8" :> f11_8) @@
                    ("F11-10X10" :> f11_10) @@
                    ("F11-16X10" :> Max(1, f11_total - (f11_4 + f11_6 + f11_8 + f11_10)))
               ELSE EmptyDict
    IN  f10 @@ f11

\* the floor pages the loop does not skip: `if page_num >= len(pdf.pages):
\* continue`
PagesRead(pages, plans) == {k \in DOMAIN plans : plans[k] < Len(pages)}

\* over the floor pages read, the matches of a tag in the text of the page
RawTotal(pages, plans, tag) ==
    SumValues([k \in PagesRead(pages, plans) |->
                  PatternMatches(PageAt(pages, plans[k]).text, Literal(tag))])

\* pendant_counts after the loop over the floor pages: over the pages read,
\* the size-specific matches of every type
PendantCounts(pages, plans) ==
    IF PagesRead(pages, plans) = {} THEN EmptyDict
    ELSE [type \in PendantTypes |->
             SumValues([k \in PagesRead(pages, plans) |->
                           SpecificMatches(PageAt(pages, plans[k]).text, type)])]

\* the counts returned for the raw totals and the size-specific counts: the
\* totals are distributed when no size was found
PendantResult(f10_total, f11_total, pendant_counts) ==
    IF SumValues(pendant_counts) = 0 /\ (f10_total > 0 \/ f11_total > 0)
    THEN DistributedPendants(f10_total, f11_total) @@ pendant_counts
    ELSE pendant_counts

\* count_pendants_from_floor_plans(pdf_path, floor_pages, floor_count):
\* [raised, pendants], pendants being dict(pendant_counts); floor_count is
\* not read.  A floor page that is read and cannot be read raises
count_pendants_from_floor_plans(pages, plans) ==
    IF \E k \in PagesRead(pages, plans) : Raises(pages, plans[k])
    THEN [raised |-> TRUE, pendants |-> EmptyDict]
    ELSE [raised |-> FALSE,
          pendants |->
            PendantResult(RawTotal(pages, plans, <<"F", "F", "1", "1", "0", "0">>),
                          RawTotal(pages, plans, <<"F", "F", "1", "1", "1", "1">>),
                          PendantCounts(pages, plans))]

CountPendantsFromFloorPlans ==
    /\ pc = "start"
    /\ LET r == count_pendants_from_floor_plans(pdf_pages, floor_pages)
       IN  /\ pendants' = r.pendants
           /\ pendants_raised' = r.raised
    /\ pc' = "pendants_counted"
    /\ UNCHANGED <<floor_pages, nonPendantVars>>

-----------------------------------------------------------------------------
(* pdf_extractor.extract_panel_breakers, count_linear_leds_with_distribution *)
(* and extract_all_from_pdf under a ProjectConfig, whose sheet_map names    *)
(* the page of each sheet and whose floor_count is the floor multiplicity.  *)

\* extract_panel_breakers(pdf_path, page_num): [raised, breakers]
extract_panel_breakers(pages, page_no) ==
    IF Raises(pages, page_no) THEN [raised |-> TRUE, breakers |-> EmptyDict]
    ELSE LET text == PageAt(pages, page_no).text
             Has(pat) == Occurs(pat, text)
             upper == Upper(text)
             HasUpper(pat) == Occurs(pat, upper)
             twenty == FindAllCount(text, <<BoundedWord(<<"2", "0">>)>>, FALSE) \div 10
             thirty == FindAllCount(text, <<BoundedWord(<<"3", "0">>)>>, FALSE) \div 10
             safety == \/ HasUpper(<<"D", "I", "S", "C", "O", "N", "N", "E", "C", "T">>)
                       \/ HasUpper(<<"S", "A", "F", "E", "T", "Y">>)
         IN  [raised |-> FALSE,
              breakers |->
                [k \in {"20A 1P Breaker", "30A 2P Breaker", "30A/2P Safety Switch 240V",
                        "30A/3P Safety Switch 600V", "100A/3P Safety Switch 600V"} |->
                    CASE k = "20A 1P Breaker" -> Min(twenty, 20)
                      [] k = "30A 2P Breaker" -> Min(thirty, 5)
                      [] k = "30A/2P Safety Switch 240V" ->
                            IF safety /\ (Has(<<"3", "0", "A">>) \/ Has(<<"3", "0", " ", "A">>))
                            THEN 1 ELSE 0
                      [] k = "30A/3P Safety Switch 600V" -> 0
                      [] k = "100A/3P Safety Switch 600V" ->
                            IF safety /\ (Has(<<"1", "0", "0", "A">>)
                                             \/ Has(<<"1", "0", "0", " ", "A">>))
                            THEN 1 ELSE 0]]

\* length_patterns: the matches of FF99[- /]*<feet>['"]? (with (?!\d) for
\* 4, 6 and 8) and those of <feet>['"]?\s*FF99 in the text of a page
LinearMatches(text, feet) ==
    LET tag == Literal(<<"F", "F", "9", "9">>)
        quote == <<Opt({"'", "\""})>>
        after == tag \o <<Star({"-", " ", "/"})>> \o Literal(feet) \o quote
                     \o (IF Len(feet) = 1 THEN <<NotNext(Digits)>> ELSE <<>>)
        before == Literal(feet) \o quote \o <<Star(Whitespace)>> \o tag
    IN  PatternMatches(text, after) + PatternMatches(text, before)

LinearFeet ==
    ("4' Linear LED" :> <<"4">>) @@ ("6' Linear LED" :> <<"6">>) @@
    ("8' Linear LED" :> <<"8">>) @@ ("10' Linear LED" :> <<"1", "0">>) @@
    ("16' Linear LED" :> <<"1", "6">>)

\* linear_counts after the loop over the floor pages: over the pages read,
\* the matches of every length
LinearCounts(pages, plans) ==
    IF PagesRead(pages, plans) = {} THEN EmptyDict
    ELSE [type \in DOMAIN LinearFeet |->
             SumValues([k \in PagesRead(pages, plans) |->
                           LinearMatches(PageAt(pages, plans[k]).text, LinearFeet[type])])]

\* f9_adjusted = f9_total // floor_count if floor_count > 1 else f9_total
F9Adjusted(f9_total, floors) == IF floors > 1 THEN f9_total \div floors ELSE f9_total

\* the distribution of total_linear feet over the lengths
DistributedLinear(total_linear) ==
    LET four == Max(1, IntOfProduct(total_linear, 31, 100))
        six == Max(1, IntOfProduct(total_linear, 23, 100))
        eight == Max(1, IntOfProduct(total_linear, 15, 100))
        ten == Max(1, IntOfProduct(total_linear, 27, 100))
    IN  ("4' Linear LED" :> four) @@ ("6' Linear LED" :> six) @@
        ("8' Linear LED" :> eight) @@ ("10' Linear LED" :> ten) @@
        ("16' Linear LED" :> Max(1, total_linear - (four + six + eight + ten)))

\* the counts returned for the adjusted tag count and the counts by length:
\* the tags are distributed when no length was found
LinearResult(f9_adjusted, linear_counts) ==
    IF SumValues(linear_counts) = 0 /\ f9_adjusted > 0
    THEN DistributedLinear(f9_adjusted * 8)
    ELSE linear_counts

\* count_linear_leds_with_distribution(pdf_path, floor_pages, floor_count):
\* [raised, linear], linear being dict(linear_counts)
count_linear_leds_with_distribution(pages, plans, floors) ==
    IF \E k \in PagesRead(pages, plans) : Raises(pages, plans[k])
    THEN [raised |-> TRUE, linear |-> EmptyDict]
    ELSE [raised |-> FALSE,
          linear |->
            LinearResult(F9Adjusted(RawTotal(pages, plans, <<"F", "F", "9", "9">>), floors),
                         LinearCounts(pages, plans))]

\* the sheet map extract_all_from_pdf works with: the defaults when the
\* configured one is empty
EffectiveSheetMap(map) ==
    IF map = EmptyDict
    THEN (<<"E", "1", "0", "0">> :> 1) @@ (<<"E", "2", "0", "0">> :> 2) @@
         (<<"E", "2", "0", "1">> :> 3) @@ (<<"E", "6", "0", "0">> :> 4) @@
         (<<"E", "7", "0", "0">> :> 5) @@ (<<"T", "2", "0", "0">> :> 8)
    ELSE map

\* floor_pages = {k: v for k, v in sheet_map.items() if k.startswith("E2")}
FloorPagesOf(map) ==
    LET codes == {k \in DOMAIN map : Len(k) >= 2 /\ SubSeq(k, 1, 2) = <<"E", "2">>}
    IN  [k \in codes |-> map[k]]

\* the eight entries of the result for what the calls gave, each a
\* [raised, ...] record.  Each sheet is extracted in a try block of its own,
\* and a block that raises leaves its entries empty; the demolition and
\* technology blocks call the basic extraction when the enhanced one raised
ResultEntries(fixtures, controls, power, demo, basic_demo, tech, basic_tech, panel, plans, linear, pendant) ==
    [fixtures |-> IF fixtures.raised \/ controls.raised THEN EmptyDict
                  ELSE fixtures.counts,
     controls |-> IF fixtures.raised \/ controls.raised THEN EmptyDict
                  ELSE controls.controls,
     power |-> IF power.raised THEN EmptyDict ELSE power.devices,
     demo |-> IF ~demo.raised THEN demo.demo
              ELSE IF ~basic_demo.raised THEN basic_demo.demo
              ELSE EmptyDict,
     technology |-> IF ~tech.raised THEN tech.tech
                    ELSE IF ~basic_tech.raised THEN basic_tech.tech
                    ELSE EmptyDict,
     panel |-> IF panel.raised THEN EmptyDict ELSE panel.breakers,
     linear_leds |-> IF plans = EmptyDict \/ linear.raised THEN EmptyDict
                     ELSE linear.linear,
     pendants |-> IF plans = EmptyDict \/ linear.raised \/ pendant.raised
                  THEN EmptyDict
                  ELSE pendant.pendants]

\* extract_all_from_pdf(pdf_path, config): the calls it makes, on the pages
\* the sheet map names
extract_all_from_pdf(pages, configured_map, floors) ==
    LET map == EffectiveSheetMap(configured_map)
        e200_page == Get(map, <<"E", "2", "0", "0">>, 2)
        e201_page == Get(map, <<"E", "2", "0", "1">>, 3)
        e100_page == Get(map, <<"E", "1", "0", "0">>, 1)
        t200_page == Get(map, <<"T", "2", "0", "0">>, 8)
        e700_page == Get(map, <<"E", "7", "0", "0">>, 5)
        plans == FloorPagesOf(map)
    IN  ResultEntries(extract_fixture_counts(pages, e200_page),
                      extract_controls(pages, e200_page),
                      extract_power_devices(pages, e201_page),
                      extract_demo_items_enhanced(pages, e100_page, floors),
                      extract_demo_items(pages, e100_page, floors),
                      extract_technology_enhanced(pages, t200_page, map, floors),
                      extract_technology(pages, t200_page, floors),
                      extract_panel_breakers(pages, e700_page),
                      plans,
                      count_linear_leds_with_distribution(pages, plans, floors),
                      count_pendants_from_floor_plans(pages, plans))

\* extract_all_from_pdf(pdf_path, config) returns: it raises for no document
ExtractAllFromPdf ==
    /\ pc = "start"
    /\ extracted' = extract_all_from_pdf(pdf_pages, sheet_map, floor_count)
    /\ extract_raised' = FALSE
    /\ pc' = "all_extracted"
    /\ UNCHANGED <<pdf_pages, floor_count, nonExtractVars>>

-----------------------------------------------------------------------------
(* Direct calls of business_rules.derive_boxes and derive_plates            *)

NoRuleArgs ==
    [duplex |-> 0, gfi |-> 0, sp_switches |-> 0, three_way |-> 0, dimmers |-> 0,
     wall_sensors |-> 0, ceiling_sensors |-> 0, daylight_sensors |-> 0,
     data_jacks |-> 0, two_gang_boxes |-> 0, blank_boxes |-> 0]

\* derive_boxes(duplex, gfi, switches, dimmers, wall_sensors,
\* ceiling_sensors, daylight_sensors, data_jacks)
DeriveBoxes ==
    /\ pc = "start"
    /\ rule_result' = derive_boxes(rule_args.duplex, rule_args.gfi,
                                   rule_args.sp_switches + rule_args.three_way,
                                   rule_args.dimmers, rule_args.wall_sensors,
                                   rule_args.ceiling_sensors, rule_args.daylight_sensors,
                                   rule_args.data_jacks, 0)
    /\ pc' = "boxes_derived"
    /\ UNCHANGED <<rule_args, nonBoxVars>>

\* derive_plates(duplex, gfi, dimmers, sp_switches, three_way,
\* two_gang_boxes, blank_boxes)
DerivePlates ==
    /\ pc = "start"
    /\ rule_result' = derive_plates(rule_args.duplex, rule_args.gfi, rule_args.dimmers,
                                    rule_args.sp_switches, rule_args.three_way,
                                    rule_args.two_gang_boxes, rule_args.blank_boxes)
    /\ pc' = "plates_derived"
    /\ UNCHANGED <<rule_args, nonBoxVars>>

-----------------------------------------------------------------------------
(* Initial states and specifications.                                       *)

PagesIdle == image_paths = <<>> /\ sheets = <<>>

SheetMapIdle ==
    /\ sheet_map = EmptyDict /\ detected_map = EmptyDict /\ map_updates = 0
    /\ sheet_query = <<>> /\ sheet_page = 0

PendantIdle == floor_pages = EmptyDict /\ pendants = EmptyDict /\ pendants_raised = FALSE

BoxIdle == rule_args = NoRuleArgs /\ rule_result = EmptyDict

ClassifyIdle == sheet_number = <<>> /\ sheet_type = "REFERENCE"

ValidateIdle ==
    /\ generated = EmptyDict /\ ground_truth = EmptyDict
    /\ results = <<>> /\ accuracy = <<>>
    /\ overall = DoubleOfInt(0) /\ report = NoReport

RulesIdle ==
    /\ ceiling_sensors = 0 /\ wall_sensors = 0 /\ data_jacks = 0
    /\ config = DefaultConfig
    /\ power_packs = 0 /\ cable_jhooks = <<0, 0>>

ExtractIdle ==
    /\ pdf_pages = <<TextlessPage>> /\ floor_count = 2
    /\ extracted = EmptyDict /\ extract_raised = FALSE

VectorIdle ==
    /\ drawings = <<>> /\ width_mapping = EmptyDict /\ vector_lengths = EmptyDict
    /\ page_num = 0

\* an AI call: it raised, or it returned the items of conduit_by_size, each
\* <<size, value>>, in the order of the answer
NoAiResult == [raised |-> TRUE, conduit |-> <<>>]

AiAnswer(items) == [raised |-> FALSE, conduit |-> items]

NoDocument == [source |-> "ok", pages |-> <<>>]

RoutingIdle ==
    /\ pdf_doc = NoDocument
    /\ use_pdf_vectors = FALSE /\ pdf_path_given = FALSE /\ use_ai = FALSE
    /\ ai_e200 = NoAiResult /\ ai_e201 = NoAiResult /\ building_sqft = 10000
    /\ combined_conduit = EmptyDict /\ estimated_method = "ai_vision"
    /\ ai_enabled = FALSE /\ consulted = <<>> /\ routing = NoRouting

MergeIdle ==
    /\ level_counts = <<>>
    /\ merged_total = EmptyDeviceCounts /\ partial = EmptyDeviceCounts
    /\ merged_into_total = {} /\ merged_into_partial = {} /\ partial_merged = FALSE

DeriveIdle ==
    /\ counts = EmptyDict /\ conduit_lengths = NoConduit
    /\ include_fittings = TRUE /\ include_consumables = TRUE /\ include_wire = FALSE
    /\ derived = EmptyDict /\ omitted = "none" /\ derived_partial = EmptyDict
    /\ engine_boxes = EmptyDict

InitClassify ==
    /\ pc = "start"
    /\ sheet_number \in SheetNumbers
    /\ sheet_type = "REFERENCE"
    /\ ValidateIdle /\ RulesIdle /\ DeriveIdle /\ MergeIdle /\ ExtractIdle /\ VectorIdle /\ RoutingIdle /\ PagesIdle /\ SheetMapIdle /\ PendantIdle /\ BoxIdle

\* one item, quantities over the full range
InitValidateOne ==
    /\ generated \in Dicts({"Cat 6 Jack"}, Quantities)
    /\ ground_truth \in Dicts({"Cat 6 Jack"}, Quantities)

\* validate_counts(generated): no ground truth given
InitValidateDefault ==
    /\ generated \in Dicts(OtherItems, {3})
    /\ ground_truth = None

\* names in no particular order on either side
InitValidateNames ==
    /\ generated \in Dicts(OtherItems, {3})
    /\ ground_truth \in Dicts(OtherItems, {5})

\* several items, few quantities
InitValidateMany ==
    /\ generated \in Dicts(Items, SmallQuantities)
    /\ ground_truth \in Dicts(Items, SmallQuantities)

InitValidate ==
    /\ pc = "start"
    /\ InitValidateOne \/ InitValidateMany \/ InitValidateDefault \/ InitValidateNames
    /\ results = <<>> /\ accuracy = <<>>
    /\ overall = DoubleOfInt(0) /\ report = NoReport
    /\ ClassifyIdle /\ RulesIdle /\ DeriveIdle /\ MergeIdle /\ ExtractIdle /\ VectorIdle /\ RoutingIdle /\ PagesIdle /\ SheetMapIdle /\ PendantIdle /\ BoxIdle

\* configured power-pack ratios (hundredths): 0.5, 0.58, the default 0.74,
\* and 1.0
PowerPackRatios == {50, 58, 74, 100}

\* sensor counts vary, with every configured power-pack ratio; fifty ceiling
\* sensors are a total whose float product with 0.58 lies below 29
InitRulesSensors ==
    /\ ceiling_sensors \in (0..MaxSensors) \cup {50}
    /\ wall_sensors \in 0..MaxSensors
    /\ data_jacks = 0
    /\ \E r \in PowerPackRatios : config = [DefaultConfig EXCEPT !.power_pack_ratio = r]

\* jack counts vary, with every configured cable length and J-hook spacing
InitRulesJacks ==
    /\ ceiling_sensors = 0 /\ wall_sensors = 0
    /\ data_jacks \in 0..MaxJacks
    /\ \E c \in 1..MaxCablePerJack, sp \in 1..MaxSpacing :
          config = [DefaultConfig EXCEPT !.cable_per_jack_ft = c,
                                         !.jhook_spacing_ft = sp]

InitRules ==
    /\ pc = "start"
    /\ InitRulesSensors \/ InitRulesJacks
    /\ power_packs = 0 /\ cable_jhooks = <<0, 0>>
    /\ ClassifyIdle /\ ValidateIdle /\ DeriveIdle /\ MergeIdle /\ ExtractIdle /\ VectorIdle /\ RoutingIdle /\ PagesIdle /\ SheetMapIdle /\ PendantIdle /\ BoxIdle

\* the device keys and counts the derivation runs draw
DrawnCountKeys == {"Ceiling Occupancy Sensor", "Cat 6 Jack", "Duplex Receptacle"}
CountValues == {3, 16}

\* conduit sizes (2" is not in any table of the rules) and lengths in feet
ConduitSizes == {"1/2\"", "3/4\"", "1\"", "1-1/4\"", "2\""}
LengthValues == {0, 40}

\* lengths whose float products fall below the exact ones: int(100 * 2.3) is
\* 229 and int((1250 / 100) * 9.2) is 114
LongRuns ==
    {[none |-> FALSE, items |-> ("3/4\"" :> 100)],
     [none |-> FALSE, items |-> ("3/4\"" :> 1250) @@ ("1\"" :> 50)]}

\* lengths the fittings rule skips (length <= 0)
ZeroRuns ==
    {[none |-> FALSE, items |-> ("3/4\"" :> 0)],
     [none |-> FALSE, items |-> ("1/2\"" :> 0) @@ ("1\"" :> 40)]}

LengthSnapshots ==
    {NoConduit} \cup
    {[none |-> FALSE, items |-> d] : d \in Dicts(ConduitSizes, {40})} \cup
    ZeroRuns \cup LongRuns

InitDerive ==
    /\ pc = "start"
    /\ counts \in Dicts(DrawnCountKeys, CountValues)
    /\ conduit_lengths \in LengthSnapshots
    /\ include_fittings \in BOOLEAN
    /\ include_consumables \in BOOLEAN
    /\ include_wire \in BOOLEAN
    /\ derived = EmptyDict /\ omitted = "none" /\ derived_partial = EmptyDict
    /\ engine_boxes = EmptyDict
    /\ ClassifyIdle /\ ValidateIdle /\ RulesIdle /\ MergeIdle /\ ExtractIdle /\ VectorIdle /\ RoutingIdle /\ PagesIdle /\ SheetMapIdle /\ PendantIdle /\ BoxIdle

NextClassify == ClassifySheet \/ ReclassifySheet

NextValidate == ValidateCounts \/ CalculateOverallAccuracy \/ PrintValidationReport

NextRules ==
    \/ DerivePowerPacks \/ ConfigDerivePowerPacks
    \/ DeriveCableAndJhooks \/ ConfigDeriveCableAndJhooks

NextDerive ==
    \/ DeriveAllMaterials
    \/ RederiveWithoutFittings \/ RederiveWithoutConsumables \/ RederiveWithoutWire

\* the DeviceCounts drawn: two fixture tags, and the tag F2 also as a key of
\* the power field
DrawnDeviceCounts ==
    {[EmptyDeviceCounts EXCEPT !.fixtures = f, !.power = p] :
        f \in Dicts({"F2", "F4"}, {2}), p \in Dicts({"F2"}, {1})}

NumLevels == 3

InitMerge ==
    /\ pc = "start"
    /\ level_counts \in [1..NumLevels -> DrawnDeviceCounts]
    /\ merged_total = EmptyDeviceCounts /\ partial = EmptyDeviceCounts
    /\ merged_into_total = {} /\ merged_into_partial = {} /\ partial_merged = FALSE
    /\ ClassifyIdle /\ ValidateIdle /\ RulesIdle /\ DeriveIdle /\ ExtractIdle /\ VectorIdle /\ RoutingIdle /\ PagesIdle /\ SheetMapIdle /\ PendantIdle /\ BoxIdle

NextMerge ==
    \/ MergeIntoTotal \/ MergeIntoPartial \/ MergePartialIntoTotal
    \/ AggregateLevelCounts

SpecMerge == InitMerge /\ [][NextMerge]_vars
\* the layout of the drawn pages: the copies of a word stand side by side,
\* PerLine to a line, and those of a word of the title block one below the
\* other
PerLine == 10
Pitch == 70
LineHeight == 5

\* the k-th copy of a word
Copy(word, k) ==
    LET per_line == IF word.x0 * 100 > 85 * PageSize.width THEN 1 ELSE PerLine
        col == (k - 1) % per_line
        row == (k - 1) \div per_line
    IN  Word(word.text, word.x0 + col * Pitch, word.x1 + col * Pitch,
             word.top + row * LineHeight)

\* n copies of a word, in reading order
Copies(word, n) == [k \in 1..n |-> Copy(word, k)]

\* a demolition sheet: keynote 1 in the drawing area (narrow, and as wide
\* text), keynote 1 in the title block, keynote 9, a two-digit number, and
\* floor-box symbols in upper and lower case; and a keynote 9 after U+000B
\* and a floor-box symbol before U+0085, white space that strip() removes.
\* The words of each kind stand on lines of their own, from top to bottom
DemoKeynote1 == Word(<<"1">>, 100, 110, 100)
DemoKeynote1Wide == Word(<<"1">>, 100, 140, 150)
DemoKeynote1TitleBlock == Word(<<"1">>, 900, 910, 200)
DemoKeynote9 == Word(<<"9">>, 100, 110, 250)
DemoNumber19 == Word(<<"1", "9">>, 100, 120, 300)
DemoFloorBox == Word(<<"F", "B">>, 100, 120, 350)
DemoFloorBoxLower == Word(<<"f", "b">>, 100, 120, 400)
DemoKeynote9Padded == Word(<<"", "9">>, 100, 110, 450)
DemoFloorBoxPadded == Word(<<"F", "B", "">>, 100, 120, 500)

DemoPages ==
    {Page(Copies(DemoKeynote1, k1) \o Copies(DemoKeynote1Wide, wide)
          \o Copies(DemoKeynote1TitleBlock, 4) \o Copies(DemoKeynote9, k9)
          \o Copies(DemoNumber19, 2) \o Copies(DemoFloorBox, fb)
          \o Copies(DemoFloorBoxLower, lower) \o Copies(DemoKeynote9Padded, padded)
          \o Copies(DemoFloorBoxPadded, padded)) :
        k1 \in 0..MaxKeynotes, wide \in {0, 30}, k9 \in {0, 7},
        fb \in 0..MaxFloorBoxes, lower \in {0, 1}, padded \in {0, 1}}

InitDemo ==
    /\ pc = "start"
    /\ pdf_pages \in {<<p>> : p \in DemoPages}
    /\ floor_count \in 0..MaxFloors
    /\ extracted = EmptyDict /\ extract_raised = FALSE
    /\ ClassifyIdle /\ ValidateIdle /\ RulesIdle /\ DeriveIdle /\ MergeIdle /\ VectorIdle /\ RoutingIdle /\ PagesIdle /\ SheetMapIdle /\ PendantIdle /\ BoxIdle

NextDemo == ExtractDemoItems

SpecDemo == InitDemo /\ [][NextDemo]_vars

\* a sheet with device tags: occupancy sensors and smoke detectors in the
\* drawing area, other control, fire-alarm and data tags, doubled fixture
\* tags, keynotes, and tags in the title block at the right; circuit numbers
\* alone, before a comma and in a range; a tag in lower case, and U+00DF,
\* whose upper case is SS; and a legend whose entries are written in several
\* words: a floor box with data as FB D, a fixture size as 2 x 4
MaxTags == 5

TagOC == Word(<<"O", "C">>, 100, 112, 100)
TagOCTitleBlock == Word(<<"O", "C">>, 900, 912, 120)
TagLS == Word(<<"L", "S">>, 100, 112, 140)
TagD == Word(<<"D">>, 100, 108, 160)
TagDWide == Word(<<"D">>, 100, 125, 180)
TagS == Word(<<"S">>, 100, 108, 200)
TagSTitleBlock == Word(<<"S">>, 900, 908, 220)
Tag015 == Word(<<"0", "1", "5">>, 100, 118, 240)
TagF == Word(<<"F">>, 100, 108, 260)
TagCircuit == Word(<<"3", "6">>, 100, 112, 280)
TagCircuitList == Word(<<"3", "6", ",">>, 100, 115, 310)
TagCircuitRange == Word(<<"3", "6", "-", "3", "7">>, 100, 130, 330)
TagLSLower == Word(<<"l", "s">>, 100, 112, 350)
TagSharpS == Word(<<"ß">>, 100, 108, 370)
TagWP1 == Word(<<"W", "P", "1">>, 100, 118, 390)
TagWP1TitleBlock == Word(<<"W", "P", "1">>, 900, 918, 410)
TagFB == Word(<<"F", "B">>, 100, 112, 430)
TagF2 == Word(<<"F", "F", "2", "2">>, 100, 124, 450)
TagF2TitleBlock == Word(<<"F", "F", "2", "2">>, 900, 924, 470)
TagF4E == Word(<<"F", "F", "4", "4", "E", "E">>, 100, 136, 490)
TagKeynote2 == Word(<<"2">>, 100, 108, 510)

\* the legend: FB D on one line, 2 x 4 on the next
LegendWords ==
    <<Word(<<"F", "B">>, 100, 112, 700), Word(<<"D">>, 120, 128, 700),
      Word(<<"2">>, 100, 108, 720), Word(<<"x">>, 120, 128, 720),
      Word(<<"4">>, 140, 148, 720)>>

TagPages ==
    {Page(Copies(TagOC, oc) \o Copies(TagOCTitleBlock, tb) \o Copies(TagLS, 3)
          \o Copies(TagD, 5) \o Copies(TagDWide, 2) \o Copies(TagS, s)
          \o Copies(TagSTitleBlock, tb) \o Copies(Tag015, 4) \o Copies(TagF, 2)
          \o Copies(TagCircuit, 2) \o Copies(TagCircuitList, 1)
          \o Copies(TagCircuitRange, 1) \o Copies(TagLSLower, 1) \o Copies(TagSharpS, 1)
          \o Copies(TagWP1, wp) \o Copies(TagWP1TitleBlock, tb) \o Copies(TagFB, fb)
          \o Copies(TagF2, 3) \o Copies(TagF2TitleBlock, tb) \o Copies(TagF4E, 1)
          \o Copies(TagKeynote2, 25)
          \o (IF legend THEN LegendWords ELSE <<>>)) :
        oc \in 0..MaxTags, s \in {0, MaxTags}, wp \in {0, 2 * MaxTags},
        tb \in {0, 1}, fb \in {0, 3}, legend \in BOOLEAN}

InitTags ==
    /\ pc = "start"
    /\ pdf_pages \in {<<p>> : p \in TagPages}
    /\ floor_count \in 0..MaxFloors
    /\ extracted = EmptyDict /\ extract_raised = FALSE
    /\ ClassifyIdle /\ ValidateIdle /\ RulesIdle /\ DeriveIdle /\ MergeIdle /\ VectorIdle /\ RoutingIdle /\ PagesIdle /\ SheetMapIdle /\ PendantIdle /\ BoxIdle

\* the extraction functions called one by one
NextDedup ==
    \/ ExtractControls \/ ExtractPowerDevices \/ ExtractTechnology
    \/ ExtractFixtureCounts \/ ExtractDemoItems

SpecDedup == InitTags /\ [][NextDedup]_vars

\* a lighting sheet with one word made of doubled characters: the pieces
\* the doubled fixture tags are built from, in upper and lower case
MaxPieces == 4

TagPieces ==
    {<<"F", "F">>, <<"f", "f">>, <<"4", "4">>, <<"E", "E">>, <<"7", "7">>, <<"5", "5">>,
     <<"1", "1">>, <<"0", "0">>}

RECURSIVE TextsOfPieces(_)
TextsOfPieces(n) ==
    IF n = 0 THEN {<<>>}
    ELSE LET shorter == TextsOfPieces(n - 1)
         IN  shorter \cup {t \o piece : t \in shorter, piece \in TagPieces}

DoubledWord(text) == Word(text, 100, 100 + 6 * Len(text), 500)

InitFixtureTags ==
    /\ pc = "start"
    /\ \E text \in TextsOfPieces(MaxPieces) \ {<<>>} :
            pdf_pages = <<Page(<<DoubledWord(text)>>)>>
    /\ floor_count = 2
    /\ extracted = EmptyDict /\ extract_raised = FALSE
    /\ ClassifyIdle /\ ValidateIdle /\ RulesIdle /\ DeriveIdle /\ MergeIdle /\ VectorIdle /\ RoutingIdle /\ PagesIdle /\ SheetMapIdle /\ PendantIdle /\ BoxIdle

NextFixtureTags == ExtractFixtureCounts

SpecFixtureTags == InitFixtureTags /\ [][NextFixtureTags]_vars

\* a page of vector paths: widths on both sides of each threshold's slack,
\* a path without a width, paths of line segments, of a curve between
\* segments, and without items
MaxPaths == 2

Line(dx, dy) == [type |-> "l", dx |-> dx, dy |-> dy]

Curve == [type |-> "c", dx |-> 0, dy |-> 0]

DrawnWidths == {NoWidth, 3, 6, 7, 12, 18, 19}

DrawnItems ==
    {<<>>, <<Line(9, 0)>>, <<Line(3, 4), Curve, Line(27, 36)>>, <<Line(0, 18), Line(3, 4)>>,
     <<Line(1, 0), Line(0, 44)>>}

DrawnPaths == [width : DrawnWidths, items : DrawnItems]

\* the default mapping and a configured one: 0.5 points and 2 points
DrawnWidthMappings ==
    {DefaultWidthMapping, [w \in {4, 16} |-> IF w = 4 THEN "1/2\"" ELSE "2\""]}

InitVector ==
    /\ pc = "start"
    /\ drawings \in UNION {[1..n -> DrawnPaths] : n \in 0..MaxPaths}
    /\ width_mapping \in DrawnWidthMappings
    /\ vector_lengths = EmptyDict /\ page_num = 0
    /\ ClassifyIdle /\ ValidateIdle /\ RulesIdle /\ DeriveIdle /\ MergeIdle /\ ExtractIdle /\ RoutingIdle /\ PagesIdle /\ SheetMapIdle /\ PendantIdle /\ BoxIdle

NextVector == ExtractConduitLengths

SpecVector == InitVector /\ [][NextVector]_vars

\* documents: fitz missing, a document that cannot be read, and documents
\* of two, three and four pages whose pages 2 and 3 have no drawings, a path
\* without line segments or a path of one segment
RoutingPage ==
    {<<>>, <<[width |-> 3, items |-> <<Curve>>]>>,
     <<[width |-> 3, items |-> <<Line(27, 36)>>]>>}

DrawnDocuments ==
    {[source |-> src, pages |-> <<>>] : src \in {"no_fitz", "error"}} \cup
    {[source |-> "ok", pages |-> <<<<>>, <<>>>> \o rest] :
        rest \in UNION {[1..n -> RoutingPage] : n \in 0..2}}

\* what the AI call does: it raises, or it returns an empty dict, lengths,
\* a length followed by a null, a null alone, or an infinite length
DrawnAiResults ==
    {NoAiResult, AiAnswer(<<>>),
     AiAnswer(<<<<"3/4\"", Number(40)>>>>),
     AiAnswer(<<<<"3/4\"", Number(100)>>>>),
     AiAnswer(<<<<"3/4\"", Number(100)>>, <<"1\"", JsonNull>>>>),
     AiAnswer(<<<<"1\"", JsonNull>>, <<"3/4\"", Number(40)>>>>),
     AiAnswer(<<<<"3/4\"", Infinity>>>>),
     AiAnswer(<<<<"2\"", Infinity>>, <<"3/4\"", Number(40)>>>>)}

\* the answers drawn for the second call
DrawnSecondAiResults ==
    {NoAiResult, AiAnswer(<<>>),
     AiAnswer(<<<<"3/4\"", Number(40)>>>>),
     AiAnswer(<<<<"1\"", Number(60)>>, <<"3/4\"", JsonNull>>>>)}

DrawnDeviceCountsForRouting ==
    {EmptyDict, ("F2" :> 20 @@ "Duplex Receptacle" :> 10 @@ "Wireless Dimmer" :> 4)}

InitRouting ==
    /\ pc = "start"
    /\ pdf_doc \in DrawnDocuments
    /\ use_pdf_vectors \in BOOLEAN /\ pdf_path_given \in BOOLEAN /\ use_ai \in BOOLEAN
    /\ ai_e200 \in DrawnAiResults /\ ai_e201 \in DrawnSecondAiResults
    /\ building_sqft \in {1200, 10000}
    /\ combined_conduit = EmptyDict /\ estimated_method = "ai_vision"
    /\ ai_enabled = FALSE /\ consulted = <<>> /\ routing = NoRouting
    /\ counts \in DrawnDeviceCountsForRouting
    /\ conduit_lengths = NoConduit
    /\ include_fittings = TRUE /\ include_consumables = TRUE /\ include_wire = TRUE
    /\ derived = EmptyDict /\ omitted = "none" /\ derived_partial = EmptyDict
    /\ engine_boxes = EmptyDict
    /\ ClassifyIdle /\ ValidateIdle /\ RulesIdle /\ MergeIdle /\ ExtractIdle /\ VectorIdle /\ PagesIdle /\ SheetMapIdle /\ PendantIdle /\ BoxIdle

\* the vector estimate and the derivation from it
NextVectorSource == EstimateConduitFromPdfVectors \/ DeriveFromVectorLengths

\* analyze_routing_complete, block by block
NextAnalyzeRouting ==
    \/ TryPdfVectors \/ TryAiE200 \/ TryAiE201 \/ UseDeviceEstimate \/ ReturnRouting
    \/ RecoverRouting

\* the quick test, which skips the analysis
NextQuickTest == run_quick_test

NextRouting == NextVectorSource \/ NextAnalyzeRouting \/ NextQuickTest

SpecRouting == InitRouting /\ [][NextRouting]_vars

\* repeated calls and calls through the schedules, on fewer conduit sizes
FewConduitSizes == {"3/4\"", "2\""}

FewLengthSnapshots ==
    {NoConduit} \cup
    {[none |-> FALSE, items |-> d] : d \in Dicts(FewConduitSizes, LengthValues)}

InitPurity ==
    /\ pc = "start"
    /\ counts \in Dicts(DrawnCountKeys, CountValues)
    /\ conduit_lengths \in FewLengthSnapshots
    /\ include_fittings \in BOOLEAN
    /\ include_consumables \in BOOLEAN
    /\ include_wire \in BOOLEAN
    /\ derived = EmptyDict /\ omitted = "none" /\ derived_partial = EmptyDict
    /\ engine_boxes = EmptyDict
    /\ ClassifyIdle /\ ValidateIdle /\ RulesIdle /\ MergeIdle /\ ExtractIdle /\ VectorIdle /\ RoutingIdle /\ PagesIdle /\ SheetMapIdle /\ PendantIdle /\ BoxIdle

NextPurity == DeriveAllMaterials \/ DeriveAgain \/ DeriveMaterialsWithSchedules

\* drawing sets of up to MaxSheets pages, one more than the sheet map covers,
\* and sheet codes of up to MaxProbeLen characters
MaxSheets == 12
MaxProbeLen == 3

ImagePaths == {"page.png", "scan.png"}
DrawnImagePathLists == UNION {[1..n -> ImagePaths] : n \in 0..MaxSheets}
ProbeSheetNumbers ==
    UNION {[1..n -> Alphabet] : n \in 0..MaxProbeLen} \cup LiteralSheetNumbers

InitPages ==
    /\ pc = "start"
    /\ \/ image_paths \in DrawnImagePathLists /\ sheet_number = <<>>
       \/ image_paths = <<>> /\ sheet_number \in ProbeSheetNumbers
    /\ sheets = <<>>
    /\ sheet_type = "REFERENCE"
    /\ ValidateIdle /\ RulesIdle /\ DeriveIdle /\ MergeIdle /\ ExtractIdle /\ VectorIdle /\ RoutingIdle /\ SheetMapIdle /\ PendantIdle /\ BoxIdle

NextPages == ClassifyPages \/ ClassifySheet

SpecPages == InitPages /\ [][NextPages]_vars

\* configurations as a file can carry them (keys in either case) and
\* detected maps as detect_sheet_pages builds them (keys in upper case)
MaxMapUpdates == 2

SheetE200 == <<"E", "2", "0", "0">>
SheetE200Lower == <<"e", "2", "0", "0">>
SheetT200 == <<"T", "2", "0", "0">>
SheetA101 == <<"A", "1", "0", "1">>

ConfiguredSheetMaps ==
    UNION {[ks -> {2, 7}] : ks \in SUBSET {SheetE200, SheetE200Lower, SheetA101}}

DetectedSheetMaps ==
    UNION {[ks -> {7}] : ks \in SUBSET {SheetE200, SheetT200, SheetA101}}

QueriedSheets ==
    {SheetE200, SheetE200Lower, SheetT200, SheetA101, <<"t", "2", "0", "0">>,
     <<"E", "9", "9", "9">>}

InitSheetMap ==
    /\ pc = "start"
    /\ sheet_map \in ConfiguredSheetMaps
    /\ detected_map = EmptyDict /\ map_updates = 0
    /\ sheet_query = <<>> /\ sheet_page = 0
    /\ ClassifyIdle /\ ValidateIdle /\ RulesIdle /\ DeriveIdle /\ MergeIdle /\ ExtractIdle /\ VectorIdle /\ RoutingIdle /\ PagesIdle /\ PendantIdle /\ BoxIdle

NextSheetMap ==
    \/ \E d \in DetectedSheetMaps : map_updates < MaxMapUpdates /\ UpdateSheetMap(d)
    \/ map_updates < MaxMapUpdates + 1 /\ UpdateSheetMapAgain
    \/ \E code \in QueriedSheets : GetSheetPage(code)

SpecSheetMap == InitSheetMap /\ [][NextSheetMap]_vars

\* floor plans: a page with up to MaxPendants bare tags of each family and
\* possibly a tag with its size, written as one word or as several; the page
\* alone, or with a second floor whose page is past the end of the document,
\* holds one bare tag of each family or cannot be read; and floors whose
\* page index is past the end or counted from the end
MaxPendants == 8

TokenFF1100 == Word(<<"F", "F", "1", "1", "0", "0">>, 100, 136, 100)
TokenFF1111 == Word(<<"f", "f", "1", "1", "1", "1">>, 100, 136, 200)
TokenSizedF10 == Word(<<"F", "F", "1", "1", "0", "0", "-", "2", "2">>, 100, 154, 300)
TokenSizedF11 == Word(<<"F", "1", "1", "-", "4", "x", "4">>, 100, 142, 350)

\* F10 22 and F11-4 x 4, each on one line
SplitSizedF10 == <<Word(<<"F", "1", "0">>, 100, 118, 400), Word(<<"2", "2">>, 130, 142, 400)>>
SplitSizedF11 ==
    <<Word(<<"F", "1", "1", "-", "4">>, 100, 130, 450), Word(<<"x">>, 140, 146, 450),
      Word(<<"4">>, 156, 162, 450)>>

\* the sized tags of a page: none, one word, both words, or one in several
\* words
SizedWords ==
    {<<>>, <<TokenSizedF10>>, <<TokenSizedF11>>, <<TokenSizedF10, TokenSizedF11>>,
     SplitSizedF10, SplitSizedF11}

FloorPage(a, b, sized) == Page(Copies(TokenFF1100, a) \o Copies(TokenFF1111, b) \o sized)

DrawnFloorPages ==
    {FloorPage(a, b, sized) : a \in 0..MaxPendants, b \in 0..MaxPendants, sized \in SizedWords}

\* the documents and floor_pages of the calls
DrawnFloorPlans ==
    {[pages |-> <<first>>, plans |-> plans] :
        first \in DrawnFloorPages,
        plans \in {("L1" :> 0), ("L1" :> 0) @@ ("L2" :> 1), ("L1" :> -1)}}
    \cup
    {[pages |-> <<first, FloorPage(1, 1, <<>>)>>, plans |-> ("L1" :> 0) @@ ("L2" :> 1)] :
        first \in DrawnFloorPages}
    \cup
    {[pages |-> <<FloorPage(a, b, <<>>), UnreadablePage>>, plans |-> plans] :
        a \in {0, 5}, b \in {0, 7},
        plans \in {("L1" :> 0) @@ ("L2" :> 1), ("L1" :> 1), ("L1" :> 2),
                   ("L1" :> 0) @@ ("L2" :> -3)}}

InitPendants ==
    /\ pc = "start"
    /\ \E call \in DrawnFloorPlans :
          /\ pdf_pages = call.pages
          /\ floor_pages = call.plans
    /\ floor_count = 2
    /\ extracted = EmptyDict /\ extract_raised = FALSE
    /\ pendants = EmptyDict /\ pendants_raised = FALSE
    /\ ClassifyIdle /\ ValidateIdle /\ RulesIdle /\ DeriveIdle /\ MergeIdle /\ VectorIdle /\ RoutingIdle /\ PagesIdle /\ SheetMapIdle /\ BoxIdle

NextPendants == CountPendantsFromFloorPlans

SpecPendants == InitPendants /\ [][NextPendants]_vars

\* device counts of a direct call: every number of duplex receptacles and of
\* blank boxes up to the bound, the other devices absent or present
MaxDuplex == 12
MaxBlankBoxes == 12

DrawnRuleArgs ==
    {[duplex |-> d, gfi |-> g, sp_switches |-> s, three_way |-> 0, dimmers |-> dm,
      wall_sensors |-> w, ceiling_sensors |-> c, daylight_sensors |-> dl,
      data_jacks |-> 0, two_gang_boxes |-> 0, blank_boxes |-> 0] :
        d \in 0..MaxDuplex, g \in {0, 5}, s \in {0, 9}, dm \in {0, 1}, w \in {0, 30},
        c \in {0, 3}, dl \in {0, 2}}
    \cup
    {[NoRuleArgs EXCEPT !.duplex = d, !.three_way = t, !.data_jacks = j,
                        !.two_gang_boxes = tg, !.blank_boxes = b] :
        d \in {0, 5}, t \in {0, 4}, j \in {0, 20}, tg \in {0, 1, 4}, b \in 0..MaxBlankBoxes}

InitBoxes ==
    /\ pc = "start"
    /\ rule_args \in DrawnRuleArgs
    /\ rule_result = EmptyDict
    /\ ClassifyIdle /\ ValidateIdle /\ RulesIdle /\ DeriveIdle /\ MergeIdle /\ ExtractIdle /\ VectorIdle /\ RoutingIdle /\ PagesIdle /\ SheetMapIdle /\ PendantIdle

NextBoxes == DeriveBoxes \/ DerivePlates

SpecBoxes == InitBoxes /\ [][NextBoxes]_vars

\* the calls whose quantities are compared with zero: sheets of tags and of
\* keynotes on one floor or more, floor plans with pendant tags, and device
\* counts with conduit lengths
InitQuantities ==
    \/ InitTags /\ floor_count >= 1
    \/ InitDemo /\ floor_count >= 1
    \/ InitPendants
    \/ InitPurity

NextQuantities ==
    \/ ExtractControls \/ ExtractDemoItems \/ CountPendantsFromFloorPlans
    \/ DeriveAllMaterials

SpecQuantities == InitQuantities /\ [][NextQuantities]_vars

SheetE100 == <<"E", "1", "0", "0">>
SheetE201 == <<"E", "2", "0", "1">>
SheetE700 == <<"E", "7", "0", "0">>
SheetT201 == <<"T", "2", "0", "1">>

\* the sheets extract_all_from_pdf reads by their code
ReadSheets == {SheetE100, SheetE200, SheetE201, SheetE700, SheetT200}

\* the sheet map of a document whose first page is every sheet
AllOnFirstPage == [s \in ReadSheets |-> 0]

\* the whole extraction under a project configuration, on a document whose
\* one page is every sheet
InitExtractAll ==
    /\ pc = "start"
    /\ pdf_pages \in {<<p>> : p \in TagPages}
    /\ floor_count \in 0..MaxFloors
    /\ extracted = EmptyDict /\ extract_raised = FALSE
    /\ sheet_map = AllOnFirstPage
    /\ detected_map = EmptyDict /\ map_updates = 0
    /\ sheet_query = <<>> /\ sheet_page = 0
    /\ ClassifyIdle /\ ValidateIdle /\ RulesIdle /\ DeriveIdle /\ MergeIdle /\ VectorIdle /\ RoutingIdle /\ PagesIdle /\ PendantIdle /\ BoxIdle

NextExtractAll == ExtractAllFromPdf

SpecExtractAll == InitExtractAll /\ [][NextExtractAll]_vars

\* documents of three pages: the first holds control, fixture, data, power,
\* panel and keynote tags, with or without floor boxes and linear fixtures,
\* or with entries written in several words (a linear fixture with its
\* length, safety switches with their rating, a floor box with data, a
\* fixture size); the second holds no text; the third cannot be read.  The
\* sheet map sends the five sheets that are read to the first page but for
\* at most two of them, sent to a page index of 0..3; or is empty, or names
\* the demolition sheet only; or names a second technology sheet; or counts a
\* page from the end
TagF9 == Word(<<"F", "F", "9", "9">>, 100, 124, 540)
TagF11 == Word(<<"F", "F", "1", "1", "1", "1">>, 100, 136, 560)
TagTwenty == Word(<<"2", "0">>, 100, 112, 580)
TagDisconnect == Word(<<"D", "i", "s", "c", "o", "n", "n", "e", "c", "t">>, 100, 160, 610)
Tag30A == Word(<<"3", "0", "A">>, 100, 118, 630)

\* FF99 4, SAFETY 30 A and DISCONNECT 100 A, each on one line
ScheduleWords ==
    <<Word(<<"F", "F", "9", "9">>, 100, 124, 650), Word(<<"4">>, 130, 138, 650),
      Word(<<"S", "A", "F", "E", "T", "Y">>, 100, 136, 670),
      Word(<<"3", "0">>, 140, 152, 670), Word(<<"A">>, 160, 168, 670),
      Word(<<"D", "I", "S", "C", "O", "N", "N", "E", "C", "T">>, 100, 160, 690),
      Word(<<"1", "0", "0">>, 170, 188, 690), Word(<<"A">>, 200, 208, 690)>>

DocumentWords(ws, fb, f9, rest) ==
    Copies(TagOC, 4) \o Copies(TagS, 5) \o Copies(TagCircuit, 40)
        \o Copies(TagCircuitList, 1) \o Copies(TagCircuitRange, 1) \o Copies(TagWP1, ws)
        \o Copies(TagFB, fb) \o Copies(TagF2, 3) \o Copies(TagKeynote2, 25)
        \o Copies(TagF9, f9) \o Copies(TagF11, 7) \o Copies(TagTwenty, 25) \o rest

\* the first page with its tags written as single words
PlainTextPage ==
    Page(DocumentWords(6, 0, 0, Copies(TagDisconnect, 1) \o Copies(Tag30A, 1)))

\* the first page with floor boxes and linear fixtures, and the one with the
\* entries written in several words
OtherTextPages ==
    {Page(DocumentWords(6, 3, 5, Copies(TagDisconnect, 1) \o Copies(Tag30A, 1))),
     Page(DocumentWords(6, 0, 0, ScheduleWords \o LegendWords))}

\* the page indices of the sheets sent away from the first page
OtherPages == 0..3

DocumentSheetMaps ==
    {[AllOnFirstPage EXCEPT ![s] = m, ![t] = n] :
        s \in ReadSheets, t \in ReadSheets, m \in OtherPages, n \in OtherPages}
    \cup {EmptyDict, (SheetE100 :> 0)}
    \cup {AllOnFirstPage @@ (SheetT201 :> n) : n \in {0, 2, 3}}
    \cup {[AllOnFirstPage EXCEPT ![SheetT200] = 3] @@ (SheetT201 :> 0)}
    \cup {[AllOnFirstPage EXCEPT ![s] = n] :
            s \in {SheetE200, SheetT200, SheetE700}, n \in {-1, -2, -3, -4}}
    \cup {[AllOnFirstPage EXCEPT ![SheetE200] = 2, ![SheetE201] = 3, ![SheetE700] = 1]}

\* the sheet maps that send at most one sheet to the second or third page
SingleMoveSheetMaps ==
    {[AllOnFirstPage EXCEPT ![s] = n] : s \in ReadSheets, n \in 0..2}

InitDocument ==
    /\ pc = "start"
    /\ \/ /\ pdf_pages = <<PlainTextPage, TextlessPage, UnreadablePage>>
          /\ sheet_map \in DocumentSheetMaps
       \/ /\ pdf_pages \in {<<p, TextlessPage, UnreadablePage>> : p \in OtherTextPages}
          /\ sheet_map \in SingleMoveSheetMaps
    /\ floor_count \in 0..2
    /\ extracted = EmptyDict /\ extract_raised = FALSE
    /\ detected_map = EmptyDict /\ map_updates = 0
    /\ sheet_query = <<>> /\ sheet_page = 0
    /\ ClassifyIdle /\ ValidateIdle /\ RulesIdle /\ DeriveIdle /\ MergeIdle /\ VectorIdle /\ RoutingIdle /\ PagesIdle /\ PendantIdle /\ BoxIdle

NextDocument == ExtractAllFromPdf

SpecDocument == InitDocument /\ [][NextDocument]_vars

\* the page index of a sheet: sheet_map.get(code, default) on the sheet map
\* the extraction works with
PageOfSheet(code, default) == Get(EffectiveSheetMap(sheet_map), code, default)

\* what the document holds at a page index: nothing, a page that cannot be
\* read, a page without text or a page with text
KindOfPage(n) ==
    IF OutOfRange(pdf_pages, n) THEN "out_of_range"
    ELSE IF PageAt(pdf_pages, n).kind = "error" THEN "error"
    ELSE IF PageAt(pdf_pages, n).words = <<>> THEN "no_text"
    ELSE "ok"

SheetKind(code, default) == KindOfPage(PageOfSheet(code, default))

SheetFailed(code, default) == SheetKind(code, default) # "ok"

\* the kinds of the pages of the floor plan sheets (codes starting with E2)
FloorPlanKinds ==
    {KindOfPage(EffectiveSheetMap(sheet_map)[k]) :
        k \in {c \in DOMAIN EffectiveSheetMap(sheet_map) :
                  Len(c) >= 2 /\ SubSeq(c, 1, 2) = <<"E", "2">>}}

\* the technology sheets of the map other than T200
OtherTechnologySheets ==
    {c \in DOMAIN EffectiveSheetMap(sheet_map) :
        Len(c) >= 1 /\ c[1] = "T" /\ c # SheetT200}

\* an empty snapshot, or one whose every quantity is zero
Blank(d) == \A k \in DOMAIN d : d[k] = 0

ResultCategories ==
    {"fixtures", "controls", "power", "demo", "technology", "panel",
     "linear_leds", "pendants"}

AllCategoriesReturned ==
    pc = "all_extracted" =>
        ~extract_raised /\ DOMAIN extracted = ResultCategories

\* the categories of the sheets whose page was read hold what the extractor
\* finds on that page, whatever happened to the other sheets
ReadSheetsKept ==
    pc = "all_extracted" =>
        /\ SheetKind(SheetE200, 2) = "ok" =>
                /\ extracted.fixtures
                        = extract_fixture_counts(pdf_pages, PageOfSheet(SheetE200, 2)).counts
                /\ extracted.controls
                        = extract_controls(pdf_pages, PageOfSheet(SheetE200, 2)).controls
        /\ SheetKind(SheetE201, 3) = "ok" =>
                extracted.power
                    = extract_power_devices(pdf_pages, PageOfSheet(SheetE201, 3)).devices
        /\ SheetKind(SheetE100, 1) = "ok" /\ floor_count > 0 =>
                extracted.demo
                    = extract_demo_items_enhanced(pdf_pages, PageOfSheet(SheetE100, 1),
                                                  floor_count).demo
        /\ SheetKind(SheetT200, 8) = "ok" /\ floor_count > 0 =>
                extracted.technology
                    = extract_technology_enhanced(pdf_pages, PageOfSheet(SheetT200, 8),
                                                  EffectiveSheetMap(sheet_map),
                                                  floor_count).tech
        /\ SheetKind(SheetE700, 5) = "ok" =>
                extracted.panel
                    = extract_panel_breakers(pdf_pages, PageOfSheet(SheetE700, 5)).breakers

\* the categories of the sheets that could not be read, the power devices
\* of a page without text apart; the technology counts are those of T200
\* where the map names no other technology sheet
FailedSheetsBlank ==
    pc = "all_extracted" =>
        /\ SheetFailed(SheetE200, 2) =>
                Blank(extracted.fixtures) /\ Blank(extracted.controls)
        /\ SheetKind(SheetE201, 3) \in {"error", "out_of_range"} =>
                extracted.power = EmptyDict
        /\ SheetFailed(SheetE100, 1) => Blank(extracted.demo)
        /\ SheetFailed(SheetT200, 8) /\ OtherTechnologySheets = {} =>
                Blank(extracted.technology)
        /\ SheetFailed(SheetE700, 5) => Blank(extracted.panel)
        /\ "ok" \notin FloorPlanKinds =>
                Blank(extracted.linear_leds) /\ Blank(extracted.pendants)

\* a power sheet without text is reported with the estimated receptacles
\* and switches of a small project
TextlessPowerSheetEstimated ==
    pc = "all_extracted" /\ SheetKind(SheetE201, 3) = "no_text" =>
        /\ extracted.power["Duplex Receptacle"] = 30
        /\ extracted.power["GFI Receptacle"] = 5
        /\ extracted.power["SP Switch"] = 3
        /\ extracted.power["3-Way Switch"] = 2

\* C26: whatever sheets fail (page past the end, page without text,
\* extraction raising), extract_all_from_pdf returns all eight categories,
\* every category of a failed sheet is empty or all zero, and every sheet
\* that could be read keeps its result.
C26_MissingInputRecoveredLocally ==
    /\ AllCategoriesReturned
    /\ ReadSheetsKept
    /\ FailedSheetsBlank
    /\ pc = "all_extracted" /\ SheetFailed(SheetE201, 3) =>
            Blank(extracted.power)

\* the power sheet is a page without text while the lighting sheet is read
C26_TextlessPowerSheet ==
    /\ pc = "all_extracted"
    /\ SheetKind(SheetE201, 3) = "no_text"
    /\ SheetKind(SheetE200, 2) = "ok"
    /\ extracted.power["Duplex Receptacle"] = 30
    /\ extracted.fixtures # EmptyDict

\* three sheets fail in three ways and the two others are read
SomeSheetsFailOthersKept ==
    /\ pc = "all_extracted"
    /\ SheetKind(SheetE200, 2) = "error"
    /\ SheetKind(SheetE201, 3) = "out_of_range"
    /\ SheetKind(SheetE700, 5) = "no_text"
    /\ SheetKind(SheetE100, 1) = "ok"
    /\ SheetKind(SheetT200, 8) = "ok"
    /\ floor_count = 2
    /\ ~Blank(extracted.demo) /\ ~Blank(extracted.technology)

\* the technology sheet T200 is past the end of the document and the jacks
\* of a second technology sheet are reported
JacksOfSecondTechnologySheet ==
    /\ pc = "all_extracted"
    /\ SheetKind(SheetT200, 8) = "out_of_range"
    /\ SheetT201 \in DOMAIN sheet_map /\ KindOfPage(sheet_map[SheetT201]) = "ok"
    /\ floor_count = 1
    /\ "Cat 6 Jack" \in DOMAIN extracted.technology
    /\ extracted.technology["Cat 6 Jack"] = 6

\* a page index counted from the end of the document reads that page
PageCountedFromTheEnd ==
    /\ pc = "all_extracted"
    /\ PageOfSheet(SheetE700, 5) = -3
    /\ SheetKind(SheetE700, 5) = "ok"
    /\ extracted.panel["20A 1P Breaker"] = 2

SpecClassify == InitClassify /\ [][NextClassify]_vars

SpecValidate == InitValidate /\ [][NextValidate]_vars

SpecRules == InitRules /\ [][NextRules]_vars

SpecDerive == InitDerive /\ [][NextDerive]_vars

\* a call followed rule by rule starts from the same arguments
InitEngine == InitPurity

NextEngine ==
    \/ EvaluatePowerPacks \/ EvaluateCableJhooks \/ EvaluateBoxes \/ EvaluateRings
    \/ EvaluatePlates \/ EvaluateAccessories \/ EvaluateFittings
    \/ EvaluateConsumables \/ EvaluateWire \/ ReturnDerived

\* configurations a project can carry: ratio in hundredths, feet per jack,
\* J-hook spacing in feet
ProjectConfigs ==
    {[power_pack_ratio |-> r, cable_per_jack_ft |-> c, jhook_spacing_ft |-> sp] :
        r \in PowerPackRatios, c \in {CablePerJack, 12}, sp \in {JhookSpacing, 5}}

InitPipeline ==
    /\ pc = "start"
    /\ counts \in Dicts(DrawnCountKeys, CountValues)
    /\ \E d \in Dicts(FewConduitSizes, LengthValues) :
          conduit_lengths = [none |-> FALSE, items |-> d]
    /\ include_fittings = TRUE /\ include_consumables = TRUE /\ include_wire = FALSE
    /\ derived = EmptyDict /\ omitted = "none" /\ derived_partial = EmptyDict
    /\ engine_boxes = EmptyDict
    /\ ceiling_sensors = 0 /\ wall_sensors = 0 /\ data_jacks = 0
    /\ config \in ProjectConfigs
    /\ power_packs = 0 /\ cable_jhooks = <<0, 0>>
    /\ ClassifyIdle /\ ValidateIdle /\ MergeIdle /\ ExtractIdle /\ VectorIdle /\ RoutingIdle /\ PagesIdle /\ SheetMapIdle /\ PendantIdle /\ BoxIdle

NextPipeline == PipelineDeriveMaterials

SpecPurity == InitPurity /\ [][NextPurity]_vars

SpecPipeline == InitPipeline /\ [][NextPipeline]_vars

SpecEngine == InitEngine /\ [][NextEngine]_vars

Init == InitClassify \/ InitValidate \/ InitRules \/ InitDerive \/ InitPurity \/ InitEngine
    \/ InitPipeline \/ InitMerge \/ InitDemo \/ InitTags \/ InitFixtureTags
    \/ InitVector \/ InitRouting \/ InitPages \/ InitSheetMap \/ InitPendants
    \/ InitBoxes \/ InitDocument

Next ==
    \/ NextClassify \/ NextValidate \/ NextRules \/ NextDerive \/ NextPurity
    \/ NextEngine \/ NextPipeline \/ NextMerge \/ NextDemo \/ NextDedup \/ NextExtractAll
    \/ NextFixtureTags \/ NextVector \/ NextRouting \/ NextPages \/ NextSheetMap
    \/ NextPendants \/ NextBoxes \/ NextDocument

Spec == Init /\ [][Next]_vars

-----------------------------------------------------------------------------
(* Properties of the sheet classifier.                                      *)

\* a sheet code: one letter followed by a numeric block, a string of digits
IsSheetCode(s) ==
    Len(s) >= 2 /\ s[1] \in Letters /\ \A i \in 2..Len(s) : s[i] \in Digits

\* C1: for a sheet code with numeric block n, classify_sheet_number returns
\* demolition iff n = 100, new_work iff 200 <= n < 600, legend iff n < 100,
\* schedule iff 600 <= n < 800 and reference for every other n; the same role
\* results under any other letter, and when the code is classified again.
C1_RoleByRange ==
    (pc \in {"classified", "reclassified"} /\ IsSheetCode(sheet_number)) =>
        LET n == IntOf(Tail(sheet_number))
        IN  /\ (sheet_type = "DEMO") <=> (n = 100)
            /\ (sheet_type = "NEW") <=> (200 <= n /\ n < 600)
            /\ (sheet_type = "LEGEND") <=> (n < 100)
            /\ (sheet_type = "SCHEDULE") <=> (600 <= n /\ n < 800)
            /\ (sheet_type = "REFERENCE") <=>
                   ((100 < n /\ n < 200) \/ n >= 800)
            /\ \A l \in Letters :
                   classify_sheet_number(<<l>> \o Tail(sheet_number)) = sheet_type

C1_Witness ==
    /\ pc = "reclassified"
    /\ sheet_number = <<"T", "6", "0", "0">>
    /\ sheet_type = "SCHEDULE"

-----------------------------------------------------------------------------
(* Properties of the validator.                                             *)

Validated == pc \in {"validated", "scored", "reported"}

\* C2: every record's status follows the threshold rules in order (exact iff
\* difference 0; else close iff |difference| <= 2; else acceptable iff the
\* accuracy is >= 80; else miss), 92/92 is exact, 92/90 is close with
\* difference -2, 23/0 is miss, 0/0 is exact, and a record whose reported
\* accuracy_pct is >= 80 with |difference| > 2 is never miss.
C2_StatusThresholds ==
    Validated =>
        \A i \in 1..Len(results) :
            LET r == results[i]
                d == r.difference
            IN  /\ (r.status = "exact") <=> (d = 0)
                /\ (r.status = "close") <=> (d # 0 /\ Abs(d) <= 2)
                /\ (r.status = "acceptable") <=>
                       (Abs(d) > 2 /\ ~DoubleLess(accuracy[i], DoubleOfInt(80)))
                /\ (r.status = "miss") <=>
                       (Abs(d) > 2 /\ DoubleLess(accuracy[i], DoubleOfInt(80)))
                /\ (r.expected = 92 /\ r.actual = 92) => r.status = "exact"
                /\ (r.expected = 92 /\ r.actual = 90) => (r.status = "close" /\ d = -2)
                /\ (r.expected = 23 /\ r.actual = 0) => r.status = "miss"
                /\ (r.expected = 0 /\ r.actual = 0) => r.status = "exact"
                /\ (r.accuracy_pct >= 800 /\ Abs(d) > 2) => r.status # "miss"

\* C3: difference = actual - expected, and the accuracy is 100 when expected
\* and actual are 0, 0 when only expected is 0, and max(0, (1 - |difference| /
\* expected) * 100) otherwise (as a float: within 2^-40 of that quotient); it
\* lies in [0, 100] and is 100 exactly when actual = expected.
C3_AccuracyFormula ==
    Validated =>
        /\ Len(accuracy) = Len(results)
        /\ \A i \in 1..Len(results) :
            LET r == results[i]
                a == accuracy[i]
                d == r.actual - r.expected
            IN  /\ r.difference = d
                /\ (r.expected = 0 /\ r.actual = 0) => a = DoubleOfInt(100)
                /\ (r.expected = 0 /\ r.actual # 0) => a = DoubleOfInt(0)
                /\ (r.expected > 0 /\ Abs(d) <= r.expected) =>
                       DoubleNear(a, 100 * (r.expected - Abs(d)), r.expected)
                /\ (r.expected > 0 /\ Abs(d) > r.expected) => a = DoubleOfInt(0)
                /\ ~DoubleLess(a, DoubleOfInt(0)) /\ ~DoubleLess(DoubleOfInt(100), a)
                /\ (a = DoubleOfInt(100)) <=> (r.actual = r.expected)

\* the clamp case: the actual count is more than twice the expected one
C3_Witness ==
    /\ pc = "validated"
    /\ \E i \in 1..Len(results) :
          /\ results[i].expected > 0
          /\ results[i].actual > 2 * results[i].expected
          /\ accuracy[i] = DoubleOfInt(0)

\* C4: validate_counts returns exactly one record for every key of the union
\* of the generated and the reference keys and none for any other key; a key
\* absent from one side is scored with quantity 0 on that side.
C4_OneRecordPerUnionKey ==
    Validated =>
        /\ {results[i].item : i \in 1..Len(results)} =
              (DOMAIN generated) \cup (DOMAIN GroundTruthUsed(ground_truth))
        /\ \A i, j \in 1..Len(results) :
              results[i].item = results[j].item => i = j
        /\ \A i \in 1..Len(results) :
              LET r == results[i]
              IN  /\ r.actual = (IF r.item \in DOMAIN generated
                                 THEN generated[r.item] ELSE 0)
                  /\ r.expected = (IF r.item \in DOMAIN GroundTruthUsed(ground_truth)
                                   THEN GroundTruthUsed(ground_truth)[r.item] ELSE 0)

\* one key only generated, one only in the reference, one on both sides
C4_Witness ==
    /\ pc = "validated"
    /\ Len(results) = 3
    /\ ground_truth # None
    /\ \E a, b, c \in Items :
          /\ a \in (DOMAIN generated) \ (DOMAIN ground_truth)
          /\ b \in (DOMAIN ground_truth) \ (DOMAIN generated)
          /\ c \in (DOMAIN generated) \cap (DOMAIN ground_truth)
          /\ generated[a] > 0 /\ ground_truth[b] > 0

\* C5: an item of the reference with expected > 0 that is missing from the
\* generated snapshot gets actual 0, accuracy 0 and status miss, and does not
\* count as accurate in the overall accuracy.
C5_MissingIsFullMiss ==
    Validated =>
        LET missing == {i \in 1..Len(results) :
                           /\ results[i].item \notin DOMAIN generated
                           /\ results[i].expected > 0}
        IN  /\ \A i \in missing :
                  /\ results[i].actual = 0
                  /\ results[i].accuracy_pct = 0
                  /\ results[i].status = "miss"
            /\ (pc = "scored" /\ Len(results) > 0) =>
                  ~DoubleLess(DoubleTimes(DoubleOfRatio(Len(results) - Cardinality(missing),
                                                        Len(results)),
                                          DoubleOfInt(100)),
                              overall)

\* C6: the overall accuracy is (exact + close) / total as a percentage (as a
\* float: within 2^-40 of it), in calculate_overall_accuracy and in the
\* printed report; acceptable and miss records never count, and
\* calculate_overall_accuracy returns 0 for an empty list.
C6_OverallAccuracy ==
    LET total == Len(results)
        exact == Cardinality({i \in 1..total : results[i].status = "exact"})
        close == Cardinality({i \in 1..total : results[i].status = "close"})
    IN  /\ pc = "scored" =>
              /\ total = 0 => overall = DoubleOfInt(0)
              /\ total > 0 => DoubleNear(overall, 100 * (exact + close), total)
        /\ (pc = "reported" /\ ~report.raised) =>
              DoubleNear(report.overall, 100 * (exact + close), total)

\* a scored list holding an exact, an acceptable and a miss record
C6_Witness ==
    /\ pc = "scored"
    /\ Len(results) = 3
    /\ {results[i].status : i \in 1..3} = {"exact", "acceptable", "miss"}
    /\ overall = DoubleTimes(DoubleOfRatio(1, 3), DoubleOfInt(100))

-----------------------------------------------------------------------------
(* Properties of the derivation rules.                                      *)

\* C7: the Power Pack quantity is the round-down of (ceiling + wall) * ratio,
\* with the ratio 0.74 in derive_power_packs and the configured ratio in
\* ProjectConfig.derive_power_packs; 16 ceiling and 3 wall sensors at 0.74
\* give 14.
C7_PowerPackRoundDown ==
    LET n == ceiling_sensors + wall_sensors
    IN  /\ pc = "power_packs" =>
              /\ power_packs * 100 <= n * 74
              /\ n * 74 < (power_packs + 1) * 100
        /\ pc = "config_power_packs" =>
              /\ power_packs * 100 <= n * config.power_pack_ratio
              /\ n * config.power_pack_ratio < (power_packs + 1) * 100
        /\ ( /\ pc \in {"power_packs", "config_power_packs"}
             /\ ceiling_sensors = 16 /\ wall_sensors = 3
             /\ config.power_pack_ratio = 74 ) => power_packs = 14

C7_Witness ==
    /\ pc = "power_packs"
    /\ ceiling_sensors = 16 /\ wall_sensors = 3
    /\ power_packs = 14

\* what the code does: with the ratio 0.74 of derive_power_packs, and with
\* the default ratio of ProjectConfig, the quantity is the round-down of the
\* product on every drawn total, and 16 + 3 sensors give 14
DefaultRatioRoundsDown ==
    LET n == ceiling_sensors + wall_sensors
    IN  ( \/ pc = "power_packs"
          \/ pc = "config_power_packs" /\ config.power_pack_ratio = PowerPackRatio ) =>
            /\ power_packs * 100 <= n * PowerPackRatio
            /\ n * PowerPackRatio < (power_packs + 1) * 100
            /\ (ceiling_sensors = 16 /\ wall_sensors = 3) => power_packs = 14

\* with a configured ratio the quantity is the round-down of the product or
\* one less
ConfiguredRatioWithinOne ==
    LET n == ceiling_sensors + wall_sensors
    IN  pc = "config_power_packs" =>
            /\ power_packs * 100 <= n * config.power_pack_ratio
            /\ n * config.power_pack_ratio < (power_packs + 2) * 100

\* fifty sensors at the configured ratio 0.58 give 28 power packs
ConfiguredRatioOneBelow ==
    /\ pc = "config_power_packs"
    /\ config.power_pack_ratio = 58
    /\ ceiling_sensors = 50 /\ wall_sensors = 0
    /\ power_packs = 28

\* C8: the cable footage is jacks * cable_per_jack and the J-hook count is the
\* floor of the footage / jhook_spacing, with 10 ft and 4 ft in
\* derive_cable_and_jhooks and the configured values in
\* ProjectConfig.derive_cable_and_jhooks; 92 jacks give 920 ft and 230 hooks.
C8_CableAndJhooks ==
    LET cable == cable_jhooks[1]
        hooks == cable_jhooks[2]
    IN  /\ pc = "cable_jhooks" =>
              /\ cable = data_jacks * 10
              /\ hooks * 4 <= cable /\ cable < (hooks + 1) * 4
        /\ pc = "config_cable_jhooks" =>
              /\ cable = data_jacks * config.cable_per_jack_ft
              /\ hooks * config.jhook_spacing_ft <= cable
              /\ cable < (hooks + 1) * config.jhook_spacing_ft
        /\ ( /\ pc \in {"cable_jhooks", "config_cable_jhooks"}
             /\ data_jacks = 92
             /\ config.cable_per_jack_ft = 10 /\ config.jhook_spacing_ft = 4 ) =>
                 cable_jhooks = <<920, 230>>

C8_Witness ==
    /\ pc = "config_cable_jhooks"
    /\ data_jacks = 92
    /\ config.cable_per_jack_ft = 10 /\ config.jhook_spacing_ft = 4
    /\ cable_jhooks = <<920, 230>>

-----------------------------------------------------------------------------
(* Properties of derive_all_materials.                                      *)

\* the names of the three optional sub-groups' entries
FittingKeyNames ==
    {size \o suffix : size \in ConduitSizes,
                      suffix \in {" Connector", " Coupling", " Bushing",
                                  " 1-Hole Strap", " Unistrut Strap"}}

WireKeyNames == {"#14 THHN", "#12 THHN", "#10 THHN", "#8 THHN"}

ConsumableKeyNames ==
    {"Red Wirenut", "Yellow Wirenut", "Ground Screw", "Pan Head Tapping Screw #8",
     "Poly Pull Line (ft)", "Black Tape", "Red Phase Tape", "Blue Phase Tape"}

\* the entries computed from conduit length
ConduitDerivedKeyNames == FittingKeyNames \cup WireKeyNames \cup {"Poly Pull Line (ft)"}

\* C9: called with no LengthSnapshot (None or empty), derive_all_materials
\* returns no fitting key and no wire key whatever the flags are, and no entry
\* derived from conduit length appears with value 0.
C9_NoConduitEntriesWithoutLengths ==
    ( /\ pc = "derived"
      /\ (conduit_lengths.none \/ DOMAIN conduit_lengths.items = {}) ) =>
        /\ (DOMAIN derived) \cap FittingKeyNames = {}
        /\ (DOMAIN derived) \cap WireKeyNames = {}
        /\ \A k \in (DOMAIN derived) \cap ConduitDerivedKeyNames : derived[k] # 0

\* C10: for fixed counts and lengths, switching one of include_fittings,
\* include_consumables, include_wire off removes exactly that sub-group's keys
\* from the result and leaves every other key and its value unchanged.
C10_FlagRemovesOnlyItsGroup ==
    pc = "rederived" =>
        LET group == CASE omitted = "fittings"    -> FittingKeyNames
                       [] omitted = "consumables" -> ConsumableKeyNames
                       [] omitted = "wire"        -> WireKeyNames
        IN  /\ DOMAIN derived_partial = (DOMAIN derived) \ group
            /\ \A k \in DOMAIN derived_partial : derived_partial[k] = derived[k]

\* fittings switched off on a run that also derived wire and consumables
C10_Witness ==
    /\ pc = "rederived"
    /\ omitted = "fittings"
    /\ include_wire /\ include_consumables
    /\ "3/4\" Connector" \in DOMAIN derived
    /\ "3/4\" Connector" \notin DOMAIN derived_partial
    /\ "#12 THHN" \in DOMAIN derived_partial
    /\ derived_partial["Poly Pull Line (ft)"] > 0

\* the snapshot `d` with the count of key k set to v, and with key k removed
SetCount(d, k, v) == [x \in (DOMAIN d) \cup {k} |-> IF x = k THEN v ELSE d[x]]

DelCount(d, k) == [x \in (DOMAIN d) \ {k} |-> d[x]]

\* every snapshot that differs from `d` in the count of one key of K only
Variants(d, K) ==
    {SetCount(d, k, v) : k \in K, v \in {0, 7, 16}} \cup {DelCount(d, k) : k \in K}

SensorKeys == {"Ceiling Occupancy Sensor", "Wall Occupancy Sensor", "Daylight Sensor"}

JackReceptacleFixtureKeys == {"Cat 6 Jack", "Duplex Receptacle", "F2", "F10-22"}

\* the result of a call on the snapshot c2 with the lengths and flags of the state
DerivedFor(c2) ==
    derive_all_materials(c2, conduit_lengths, include_fittings, include_consumables,
                         include_wire)

C11_SameInputsSameOutput ==
    pc = "repeated" => derived_partial = derived

C11_UnrelatedInputsIgnored ==
    pc = "derived" =>
        /\ \A c2 \in Variants(counts, JackReceptacleFixtureKeys) :
              DerivedFor(c2)["Power Pack"] = derived["Power Pack"]
        /\ \A c2 \in Variants(counts, SensorKeys) :
              /\ DerivedFor(c2)["Cat 6 Cable (ft)"] = derived["Cat 6 Cable (ft)"]
              /\ DerivedFor(c2)["J-Hook"] = derived["J-Hook"]

C11_InputsNotModified ==
    counts' = counts /\ conduit_lengths' = conduit_lengths

\* C11: derive_all_materials is pure: a second call with equal counts, lengths
\* and flags returns an equal result; no call (directly or through
\* derive_materials_with_schedules) modifies the caller's counts or
\* conduit_lengths; Power Pack is unchanged by any change to a jack,
\* receptacle or fixture count, and Cat 6 Cable and J-Hook are unchanged by
\* any change to a sensor count.
C11_Pure ==
    /\ [](C11_SameInputsSameOutput /\ C11_UnrelatedInputsIgnored)
    /\ [][C11_InputsNotModified]_vars

\* a repeated call on sensors, jacks and conduit lengths
C11_Witness ==
    /\ pc = "repeated"
    /\ derived_partial["Power Pack"] = 11
    /\ derived_partial["Cat 6 Cable (ft)"] = 160
    /\ "3/4\" Connector" \in DOMAIN derived_partial

-----------------------------------------------------------------------------
(* Properties of one call of derive_all_materials followed rule by rule.    *)

\* outputs the boxes rule returns on other counts
OtherBoxOutputs ==
    {derive_boxes(d, 0, 0, 0, 0, c, 0, 0, 0) : d \in {0, 5}, c \in {0, 2}}

\* the call followed rule by rule returns what derive_all_materials returns
EngineAgrees ==
    pc = "returned" =>
        derived = derive_all_materials(counts, conduit_lengths, include_fittings,
                                       include_consumables, include_wire)

\* C12: within one call of derive_all_materials no rule takes another rule's
\* output as its input: at every position of the call, the entries the rule
\* about to run adds are fixed by counts, conduit_lengths and the flags, and
\* do not vary with what the boxes rule left in the local `boxes`.
C12_NoRuleReadsAnotherRulesOutput ==
    \A i \in 1..Len(RuleOrder) :
        pc = (IF i = 1 THEN "start" ELSE RuleOrder[i - 1]) =>
            \A b \in OtherBoxOutputs :
                RuleOutput(RuleOrder[i], counts, conduit_lengths, include_fittings,
                           include_consumables, include_wire, b)
              = RuleOutput(RuleOrder[i], counts, conduit_lengths, include_fittings,
                           include_consumables, include_wire, engine_boxes)

-----------------------------------------------------------------------------
(* Properties of the pipeline's derivation step.                            *)

\* C13: the Power Pack, Cat 6 Cable and J-Hook quantities the pipeline
\* (TakeOffSystem.derive_materials -> derive_all_materials) produces equal
\* the values computed with the power_pack_ratio, cable_per_jack_ft and
\* jhook_spacing_ft of the project configuration, whatever they are.
C13_ConfiguredRatiosUsed ==
    pc = "pipeline_derived" =>
        LET c == ExtractCounts(counts)
            configured == ProjectConfig_derive_cable_and_jhooks(config, c.data_jacks)
        IN  /\ derived["Power Pack"] =
                  ProjectConfig_derive_power_packs(config, c.ceiling_sensors,
                                                   c.wall_sensors)
            /\ derived["Cat 6 Cable (ft)"] = configured[1]
            /\ derived["J-Hook"] = configured[2]

\* with the default ratios of ProjectConfig the pipeline's quantities are the
\* configured ones
PipelineMatchesDefaultConfig ==
    (pc = "pipeline_derived" /\ config = DefaultConfig) => C13_ConfiguredRatiosUsed

-----------------------------------------------------------------------------
(* Properties of DeviceCounts.merge.                                        *)

RECURSIVE SumOverLevels(_, _, _)
\* the sum over the levels of the count of key k in field c (0 where absent)
SumOverLevels(levels, c, k) ==
    IF levels = <<>> THEN 0
    ELSE Get(Head(levels)[c], k, 0) + SumOverLevels(Tail(levels), c, k)

\* per field, every key of any level with the sum of its counts
PerKeySums(levels) ==
    [c \in CategoryNames |->
        [k \in UNION {DOMAIN levels[i][c] : i \in 1..Len(levels)} |->
            SumOverLevels(levels, c, k)]]

\* every operand has been merged, directly or through the group
MergeDone ==
    /\ pc = "merging"
    /\ Unmerged = {}
    /\ merged_into_partial = {} \/ partial_merged

C14_OrderAndGroupingIrrelevant == MergeDone => merged_total = PerKeySums(level_counts)

C14_OperandUnchanged ==
    /\ level_counts' = level_counts
    /\ (partial_merged' # partial_merged) => partial' = partial

\* C14: DeviceCounts.merge sums per key within each field and is associative
\* and commutative: merging the snapshots into an empty one in any order and
\* grouping ends with the same per-key sums, and a merge leaves the merged-in
\* operand unchanged.
C14_MergeAssociativeCommutative ==
    /\ []C14_OrderAndGroupingIrrelevant
    /\ [][C14_OperandUnchanged]_vars

\* three snapshots merged, two of them through the group, with the key F2
\* summed over all three in one field and over two in another
C14_Witness ==
    /\ MergeDone
    /\ partial_merged /\ Cardinality(merged_into_partial) = 2
    /\ {"F2", "F4"} \subseteq DOMAIN merged_total["fixtures"]
    /\ "F2" \in DOMAIN merged_total["power"]
    /\ merged_total["fixtures"]["F2"] = 6
    /\ merged_total["power"]["F2"] = 2

-----------------------------------------------------------------------------
(* Properties of the demolition extraction.                                 *)

\* the words and the text of the page a single extraction function reads
PageWords == pdf_pages[1].words
PageText == pdf_pages[1].text

\* how many copies of a drawn word the page holds: the words with its text
\* and its width on its side of the title block
Count(word) ==
    Cardinality({i \in DOMAIN PageWords :
                    /\ PageWords[i].text = word.text
                    /\ PageWords[i].x1 - PageWords[i].x0 = word.x1 - word.x0
                    /\ (PageWords[i].x0 >= 900) = (word.x0 >= 900)})

\* the FB symbols in the drawing area of the page, in either case and with
\* white space around them
RawFloorBoxes == Count(DemoFloorBox) + Count(DemoFloorBoxLower) + Count(DemoFloorBoxPadded)

\* whether the keynote path found fewer than ten deduplicated matches
BelowThreshold ==
    SumValues(KeynoteDemo(PageWords, floor_count)) < LowConfidenceThreshold

\* C15: for every raw floor-box count c >= 0 and floor multiplicity f >= 1
\* the reported Demo Floor Box count is (c + f - 1) // f, the least n with
\* n * f >= c, on the keynote path and on the fallback path alike; so c >= 1
\* never yields 0.
C15_FloorBoxRoundsUp ==
    (pc = "demo_extracted" /\ floor_count >= 1) =>
        LET c == RawFloorBoxes
            n == extracted["Demo Floor Box"]
        IN  /\ ~extract_raised
            /\ n = (c + floor_count - 1) \div floor_count
            /\ n * floor_count >= c
            /\ (n - 1) * floor_count < c
            /\ c >= 1 => n >= 1

\* raw count 5 on two floors gives 3, on the keynote path
C15_Witness ==
    /\ pc = "demo_extracted"
    /\ floor_count = 2
    /\ RawFloorBoxes = 5
    /\ ~BelowThreshold
    /\ extracted["Demo Floor Box"] = 3

\* raw count 5 on two floors gives 3, on the fallback path
C15_WitnessFallback ==
    /\ pc = "demo_extracted"
    /\ floor_count = 2
    /\ RawFloorBoxes = 5
    /\ BelowThreshold
    /\ extracted["Demo Floor Box"] = 3

-----------------------------------------------------------------------------
(* Properties of the multi-floor deduplication.                             *)

\* rounding down: c // f for f > 1, c itself for f = 1
RoundedDown(c, f) == IF f > 1 THEN c \div f ELSE c

\* the raw count of a tag: the words of the drawing area (85% of the width
\* and of the height) whose text is the tag, narrower than max_width
RawTagCount(tag, max_width) ==
    Cardinality({i \in DOMAIN PageWords :
                    /\ PageWords[i].x0 * 100 <= 85 * PageSize.width
                    /\ PageWords[i].top * 100 <= 85 * PageSize.height
                    /\ Upper(PageWords[i].text) = tag
                    /\ PageWords[i].x1 - PageWords[i].x0 < max_width})

\* no word of the page is a floor-box symbol
NoFloorBoxWord == \A i \in DOMAIN PageWords : PageWords[i].text # <<"F", "B">>

\* the families whose code divides by floor_count round down: the keynote
\* demo items (on the keynote path) and the data jacks (without floor boxes)
FloorCountFamiliesRoundDown ==
    floor_count >= 1 =>
        /\ (pc = "demo_extracted" /\ ~BelowThreshold) =>
                \A name \in DemoNames \ {"Demo Floor Box"} :
                    extracted[name] =
                        RoundedDown(KeynoteCount(PageWords, KeynoteOf(name)), floor_count)
        /\ (pc = "technology_extracted" /\ NoFloorBoxWord) =>
                extracted["Cat 6 Jack"] = RoundedDown(RawJacks(pdf_pages[1]), floor_count)

\* C16: every non-floor-box device family is deduplicated by rounding down:
\* for raw count c and floor multiplicity f > 1 the reported count is c // f,
\* and for f = 1 it is c; this for keynote demo items, control devices,
\* fire-alarm devices and data jacks.
C16_NonFloorBoxRoundsDown ==
    floor_count >= 1 =>
        /\ FloorCountFamiliesRoundDown
        /\ pc = "controls_extracted" =>
                /\ extracted["Ceiling Occupancy Sensor"] + extracted["Wall Occupancy Sensor"]
                        = RoundedDown(RawTagCount(<<"O", "C">>, PageSize.width), floor_count)
                /\ extracted["Daylight Sensor"]
                        = RoundedDown(RawTagCount(<<"L", "S">>, PageSize.width), floor_count)
                /\ extracted["Wireless Dimmer"]
                        = RoundedDown(RawTagCount(<<"D">>, 20), floor_count)
        /\ pc = "power_extracted" =>
                /\ extracted["Smoke Detector"]
                        = RoundedDown(RawTagCount(<<"S">>, 15), floor_count)
                /\ extracted["Horn/Strobe 015"]
                        = RoundedDown(RawTagCount(<<"0", "1", "5">>, PageSize.width),
                                      floor_count)
                /\ extracted["Pull Station"]
                        = RoundedDown(RawTagCount(<<"F">>, 15), floor_count)

\* on two floors the control and fire-alarm counts are rounded down too:
\* five occupancy sensors and five smoke detectors give two
TwoFloorsRoundDown ==
    floor_count = 2 =>
        /\ (pc = "controls_extracted" /\ Count(TagOC) = 5) =>
                extracted["Ceiling Occupancy Sensor"] + extracted["Wall Occupancy Sensor"] = 2
        /\ (pc = "power_extracted" /\ Count(TagS) = 5) =>
                extracted["Smoke Detector"] = 2

\* C17: for every floor_count f of the project configuration passed to
\* extract_all_from_pdf, the control-device and fire-alarm device counts it
\* returns are the raw in-area match counts divided by f.
C17_DividedByConfiguredFloorCount ==
    (pc = "all_extracted" /\ floor_count >= 1) =>
        /\ extracted.controls["Daylight Sensor"]
                = RawTagCount(<<"L", "S">>, PageSize.width) \div floor_count
        /\ extracted.controls["Wireless Dimmer"] = RawTagCount(<<"D">>, 20) \div floor_count
        /\ extracted.controls["Ceiling Occupancy Sensor"]
                + extracted.controls["Wall Occupancy Sensor"]
                = RawTagCount(<<"O", "C">>, PageSize.width) \div floor_count
        /\ extracted.power["Smoke Detector"] = RawTagCount(<<"S">>, 15) \div floor_count
        /\ extracted.power["Horn/Strobe 015"]
                = RawTagCount(<<"0", "1", "5">>, PageSize.width) \div floor_count
        /\ extracted.power["Pull Station"] = RawTagCount(<<"F">>, 15) \div floor_count

\* the demolition and technology counts extract_all_from_pdf returns do
\* follow the configured floor_count
DemoAndTechnologyFollowFloorCount ==
    (pc = "all_extracted" /\ floor_count >= 1) =>
        /\ ~BelowThreshold =>
                extracted.demo["Demo 2'x2' Recessed"]
                    = RoundedDown(KeynoteCount(PageWords, "2"), floor_count)
        /\ NoFloorBoxWord =>
                extracted.technology["Cat 6 Jack"]
                    = RoundedDown(RawJacks(pdf_pages[1]), floor_count)

-----------------------------------------------------------------------------
(* Properties of the doubled-character tag matching.                        *)

\* the text of the one word of the lighting sheet
TheText == PageText

\* the doubled tags of FIXTURE_PATTERNS
DoubledTags == {p[1] : p \in FIXTURE_PATTERNS}

\* the fixture type of a doubled tag
TypeOfTag(tag) == (CHOOSE p \in FIXTURE_PATTERNS : p[1] = tag)[2]

\* C18: doubled-character tag matching gives precedence to the longest
\* pattern: a token that is a doubled tag is counted once, under the type of
\* that tag only, although a shorter tag is a prefix of it (FF44EE is one
\* F4E and no F4, FF77EE one F7E, FF1100 one F10, FFFF5555 one F5); in any
\* text every match is the longest tag that starts at its position, matches
\* do not share a character, and each match is counted once.
C18_LongestPatternFirst ==
    pc = "fixtures_extracted" =>
        LET text == TheText
            matches == FindAll(text)
            total == SumValues(extracted)
        IN  /\ \A tag \in DoubledTags : Upper(text) = tag => extracted = (TypeOfTag(tag) :> 1)
            /\ \A j \in DOMAIN matches : \A tag \in DoubledTags :
                    (/\ matches[j].pos + Len(tag) - 1 <= Len(text)
                     /\ Upper(SubSeq(text, matches[j].pos, matches[j].pos + Len(tag) - 1)) = tag)
                        => Len(tag) <= Len(matches[j].text)
            /\ \A j, k \in DOMAIN matches :
                    j < k => matches[j].pos + Len(matches[j].text) <= matches[k].pos
            /\ total = Len(matches)
            /\ \A t \in DOMAIN extracted :
                    extracted[t] = Cardinality({j \in DOMAIN matches :
                                        TypeOfTag(Upper(matches[j].text)) = t})

\* the token FF44EE has been counted: one F4E and no F4
C18_Witness ==
    /\ pc = "fixtures_extracted"
    /\ TheText = <<"F", "F", "4", "4", "E", "E">>
    /\ extracted = ("F4E" :> 1)

\* the other tokens of the claim have been counted
C18_WitnessQuad ==
    /\ pc = "fixtures_extracted"
    /\ TheText = <<"F", "F", "F", "F", "5", "5", "5", "5">>
    /\ extracted = ("F5" :> 1)

-----------------------------------------------------------------------------
(* Properties of the region filtering.                                      *)

\* the document whose pages are without the words whose bounding box starts
\* in the trailing 15% of the width, the title block at the right
WithoutTitleBlock(pages) ==
    LET InDrawingWidth(w) == w.x0 * 100 <= 85 * PageSize.width
    IN  [n \in DOMAIN pages |-> Page(SelectSeq(pages[n].words, InDrawingWidth))]

\* the control counts and the fire-alarm counts ignore the title block
ControlsAndFireAlarmFiltered ==
    /\ pc = "controls_extracted" =>
            extracted = extract_controls(WithoutTitleBlock(pdf_pages), 0).controls
    /\ pc = "power_extracted" =>
            extracted = extract_power_devices(WithoutTitleBlock(pdf_pages), 0).devices

\* C19: region filtering happens before counting in every tag family: a
\* token whose bounding box lies outside the drawing area contributes nothing
\* to any fixture, control, power, demolition or technology count, so each
\* function returns what it returns for the page without those tokens.
C19_RegionFilterBeforeCounting ==
    /\ ControlsAndFireAlarmFiltered
    /\ pc = "fixtures_extracted" =>
            extracted = extract_fixture_counts(WithoutTitleBlock(pdf_pages), 0).counts
    /\ (pc = "demo_extracted" /\ ~extract_raised) =>
            extracted
                = extract_demo_items(WithoutTitleBlock(pdf_pages), 0, floor_count).demo
    /\ (pc = "technology_extracted" /\ ~extract_raised) =>
            extracted
                = extract_technology(WithoutTitleBlock(pdf_pages), 0, floor_count).tech

\* the keynote path of the demolition extraction ignores the title block
DemoKeynotePathFiltered ==
    (pc = "demo_extracted" /\ ~extract_raised /\ ~BelowThreshold) =>
        extracted = extract_demo_items(WithoutTitleBlock(pdf_pages), 0, floor_count).demo

-----------------------------------------------------------------------------
(* Properties of the demolition fallback.                                   *)

\* the isolated occurrences of a digit in the text of a demolition sheet:
\* the words that are the digit alone, wherever they are on the page (the
\* digits of 19 are not isolated)
IsolatedOnPage(d) ==
    CASE d = "1" -> Count(DemoKeynote1) + Count(DemoKeynote1Wide)
                        + Count(DemoKeynote1TitleBlock)
      [] d = "9" -> Count(DemoKeynote9) + Count(DemoKeynote9Padded)
      [] OTHER -> 0

\* the recognized matches of a keynote: narrow words in the drawing area
RecognizedOnPage(d) ==
    CASE d = "1" -> Count(DemoKeynote1)
      [] d = "9" -> Count(DemoKeynote9) + Count(DemoKeynote9Padded)
      [] OTHER -> 0

\* the total of the recognized, deduplicated matches of the sheet
DeduplicatedTotal ==
    LET keynotes == [name \in DemoNames \ {"Demo Floor Box"} |->
                        RoundedDown(RecognizedOnPage(KeynoteOf(name)), floor_count)]
    IN  SumValues(keynotes) + (RawFloorBoxes + floor_count - 1) \div floor_count

\* with at least one floor the fallback is taken exactly below the
\* threshold, and reports isolated occurrences // (floors * 2) per keynote
\* and the ceiling-divided floor-box count
FallbackExactlyBelowThreshold ==
    (pc = "demo_extracted" /\ floor_count >= 1) =>
        /\ ~extract_raised
        /\ extracted["Demo Floor Box"] = (RawFloorBoxes + floor_count - 1) \div floor_count
        /\ \A name \in DemoNames \ {"Demo Floor Box"} :
                extracted[name] =
                    IF DeduplicatedTotal < 10
                    THEN IsolatedOnPage(KeynoteOf(name)) \div (floor_count * 2)
                    ELSE RoundedDown(RecognizedOnPage(KeynoteOf(name)), floor_count)

\* C20: the demolition extraction falls back to the text-frequency heuristic
\* exactly when the total of the recognized, deduplicated matches is below
\* 10; the fallback reports per keynote digit the isolated occurrences of
\* the digit // (floor multiplicity * 2) and keeps the ceiling-divided
\* floor-box count; and the extraction raises for no page and no floor
\* multiplicity f >= 0.
C20_FallbackNeverRaises ==
    pc = "demo_extracted" =>
        /\ ~extract_raised
        /\ FallbackExactlyBelowThreshold

\* the fallback has been taken on two floors: 16 narrow keynotes 1 in the
\* drawing area give 8 matches, and the estimate counts the title block too
FallbackTaken ==
    /\ pc = "demo_extracted"
    /\ floor_count = 2
    /\ Count(DemoKeynote1) = 16 /\ Count(DemoKeynote9) = 0
    /\ RawFloorBoxes = 1
    /\ DeduplicatedTotal = 9
    /\ extracted["Demo 2'x4' Recessed"]
            = (20 + Count(DemoKeynote1Wide)) \div 4

-----------------------------------------------------------------------------
(* Properties of the conduit lengths from vector paths.                     *)

\* the size class of a width: the class of the smallest threshold w of the
\* mapping with width <= 1.5 * w, the default class when there is none
SizeClass(width) ==
    LET matching == {w \in DOMAIN width_mapping : 2 * width <= 3 * w}
    IN  IF matching = {} THEN "3/4\""
        ELSE width_mapping[CHOOSE w \in matching : \A v \in matching : w <= v]

\* the points of the line segments of the paths of a size class
ClassPoints(size) ==
    LET RECURSIVE Points(_)
        Points(j) ==
            IF j = 0 THEN 0
            ELSE Points(j - 1) +
                 (IF SizeClass(PathWidth(drawings[j])) = size
                  THEN PathPoints(drawings[j]) ELSE 0)
    IN  Points(Len(drawings))

AllSizes == {"1/2\"", "3/4\"", "1\"", "1-1/4\"", "2\""}

\* C21: extract_conduit_lengths assigns every path to exactly one size
\* class, that of the smallest configured threshold w with
\* width <= 1.5 * w and 3/4" when no threshold matches; the length of every
\* line segment is accumulated in the class of its path and none is
\* dropped; and the lengths are converted at 9 points per foot: the feet
\* of a class are its points / 9 as a whole number, the whole part of the
\* quotient or, where the float sum of the feet falls short of a whole
\* number, the whole number below.
C21_EveryPathInOneSizeClass ==
    pc = "lengths_extracted" =>
        /\ \A size \in DOMAIN vector_lengths :
                /\ PointsPerFoot * vector_lengths[size] <= ClassPoints(size)
                /\ ClassPoints(size) <= PointsPerFoot * (vector_lengths[size] + 1)
                /\ ClassPoints(size) % PointsPerFoot # 0 =>
                       vector_lengths[size] = ClassPoints(size) \div PointsPerFoot
        /\ \A size \in AllSizes \ DOMAIN vector_lengths : ClassPoints(size) = 0
        /\ LET all == SumValues([j \in DOMAIN drawings |-> PathPoints(drawings[j])])
               classes == SumValues([size \in AllSizes |-> ClassPoints(size)])
           IN  /\ classes = all
               /\ PointsPerFoot * SumValues(vector_lengths) <= all
               /\ all <= PointsPerFoot *
                             (SumValues(vector_lengths) + Cardinality(DOMAIN vector_lengths))

\* a path wider than every slack went to the default class and a path of
\* width 7/8 (above 0.5 * 1.5, within 0.75 * 1.5) to the 1" class
C21_Witness ==
    /\ pc = "lengths_extracted"
    /\ width_mapping = DefaultWidthMapping
    /\ Len(drawings) = 2
    /\ drawings[1] = [width |-> 19, items |-> <<Line(3, 4), Curve, Line(27, 36)>>]
    /\ drawings[2] = [width |-> 7, items |-> <<Line(0, 18), Line(3, 4)>>]
    /\ vector_lengths = ("3/4\"" :> 5 @@ "1\"" :> 2)

\* segments of 1 and 44 points: the float sum of their feet is
\* 4.999999999999999 and the class gets 4 feet
C21_WitnessFloatSum ==
    /\ pc = "lengths_extracted"
    /\ Len(drawings) = 1
    /\ drawings[1].items = <<Line(1, 0), Line(0, 44)>>
    /\ SumValues(vector_lengths) = 4

-----------------------------------------------------------------------------
(* Properties of the routing analysis.                                      *)

\* the geometry of page n is unavailable: fitz is missing, the document
\* cannot be read, or the page is out of range
Unavailable(n) == pdf_doc.source \in {"no_fitz", "error"} \/ n >= Len(pdf_doc.pages)

\* page n gives no lengths: unavailable, or without a line segment
NoLengths(n) ==
    \/ Unavailable(n)
    \/ \A j \in DOMAIN pdf_doc.pages[n + 1] :
            \A i \in DOMAIN pdf_doc.pages[n + 1][j].items :
                pdf_doc.pages[n + 1][j].items[i].type # "l"

RoutingStages ==
    {"vectors_tried", "e200_tried", "e201_tried", "devices_tried", "routing_returned",
     "routing_raised", "routing_recovered"}

\* C22: when the geometry source is unavailable (fitz missing, page out of
\* range, extraction error) estimate_conduit_from_pdf_vectors returns an
\* empty snapshot instead of raising; derive_all_materials emits no fitting
\* and no wire for an empty snapshot; and analyze_routing_complete never
\* reports pdf_vectors as estimated_method for an empty vector result.
C22_EmptySnapshotMeansNoVectorData ==
    /\ (pc \in {"vectors_estimated", "derived_from_vectors"} /\ Unavailable(page_num)) =>
            vector_lengths = EmptyDict
    /\ (pc = "derived_from_vectors" /\ vector_lengths = EmptyDict) =>
            /\ DOMAIN derived \cap (FittingKeyNames \cup WireKeyNames) = {}
            /\ derived = derive_all_materials(counts, NoConduit, FALSE, TRUE, FALSE)
    /\ (pc \in RoutingStages /\ NoLengths(2) /\ NoLengths(3)) =>
            /\ estimated_method # "pdf_vectors"
            /\ pc \in {"routing_returned", "routing_recovered"} =>
                    routing.estimated_method # "pdf_vectors"

\* page 2 has no line segment and page 3 is out of range: the vector
\* extraction was tried and the analysis returned the device-based estimate
C22_Witness ==
    /\ pc = "routing_returned"
    /\ pdf_doc.source = "ok" /\ Len(pdf_doc.pages) = 3
    /\ pdf_doc.pages[3] = <<[width |-> 3, items |-> <<Curve>>]>>
    /\ consulted = <<"pdf_vectors", "device_based">>
    /\ routing.estimated_method = "device_based"
    /\ routing.conduit_by_size["3/4\""] = Number(550)

\* the unavailable source gave an empty snapshot and nothing was derived
\* from it but the device materials
C22_WitnessDerived ==
    /\ pc = "derived_from_vectors"
    /\ pdf_doc.source = "no_fitz"
    /\ vector_lengths = EmptyDict
    /\ derived["Duplex Plate"] = 10

\* the lengths the vector pages give together
VectorLengths ==
    LET e200 == IF NoLengths(2) THEN EmptyDict
                ELSE extract_conduit_lengths(pdf_doc.pages[3], DefaultWidthMapping)
        e201 == IF NoLengths(3) THEN EmptyDict
                ELSE extract_conduit_lengths(pdf_doc.pages[4], DefaultWidthMapping)
    IN  [size \in DOMAIN e200 \cup DOMAIN e201 |->
            Number(Get(e200, size, 0) + Get(e201, size, 0))]

\* an AI call fails when it raises or when a value of its answer is not a
\* number
Failed(answer) ==
    answer.raised \/ \E i \in DOMAIN answer.conduit : answer.conduit[i][2].kind = "other"

\* what an AI call gives: the values of its answer that stand before the
\* first value that is not a number, by size (nothing when the call raises)
Given(answer) ==
    LET items == answer.conduit
        good == {i \in DOMAIN items : \A j \in 1..i : items[j][2].kind # "other"}
    IN  IF answer.raised THEN EmptyDict
        ELSE [size \in {items[i][1] : i \in good} |->
                 items[CHOOSE i \in good : items[i][1] = size][2]]

\* the lengths the AI calls give together: those of the E200 call, and
\* those of the E201 call when the E200 call did not fail
AiLengths ==
    LET e200 == Given(ai_e200)
        e201 == IF Failed(ai_e200) THEN EmptyDict ELSE Given(ai_e201)
    IN  [size \in DOMAIN e200 \cup DOMAIN e201 |->
            IF size \notin DOMAIN e201 THEN e200[size]
            ELSE IF size \notin DOMAIN e200 THEN e201[size]
            ELSE IF "inf" \in {e200[size].kind, e201[size].kind} THEN Infinity
            ELSE Number(e200[size].n + e201[size].n)]

\* the source that produces the lengths, and its lengths
Producer ==
    IF use_pdf_vectors /\ pdf_path_given /\ DOMAIN VectorLengths # {}
    THEN [method |-> "pdf_vectors", conduit |-> VectorLengths]
    ELSE IF use_ai /\ DOMAIN AiLengths # {}
    THEN [method |-> "ai_vision", conduit |-> AiLengths]
    ELSE [method |-> "device_based",
          conduit |-> Numbers(estimate_conduit_from_devices(counts, building_sqft))]

\* the sources are consulted in the fixed order
SourceOrder == <<"pdf_vectors", "ai_e200", "ai_e201", "device_based">>

InSourceOrder ==
    \A i, j \in DOMAIN consulted :
        i < j => \E a, b \in DOMAIN SourceOrder :
                    /\ a < b
                    /\ SourceOrder[a] = consulted[i]
                    /\ SourceOrder[b] = consulted[j]

\* int(feet * multiplier) is the whole part of the exact product num/den, or
\* one below it where the float product falls short (int(100 * 2.3) is 229)
WithinOneBelow(wire, num, den) ==
    num \div den - 1 <= wire /\ wire <= num \div den

\* what is returned: non-empty lengths, the method of their producer, and
\* the wire of the returned lengths
ReturnedFromProducer ==
    pc = "routing_returned" =>
        /\ DOMAIN routing.conduit_by_size # {}
        /\ routing.estimated_method = Producer.method
        /\ routing.conduit_by_size = Producer.conduit
        /\ LET length(size) == Get(routing.conduit_by_size, size, Number(0))
               feet(size) == length(size).n
               wire == routing.wire_by_size
           IN  /\ \A size \in {"1/2\"", "3/4\"", "1\"", "1-1/4\""} :
                        length(size).kind = "number"
               /\ DOMAIN wire \subseteq WireKeyNames
               /\ Get(wire, "#14 THHN", 0) = feet("1/2\"") * 3
               /\ WithinOneBelow(Get(wire, "#12 THHN", 0), feet("3/4\"") * 23, 10)
               /\ WithinOneBelow(Get(wire, "#10 THHN", 0), feet("1\"") * 84, 10)
               /\ WithinOneBelow(Get(wire, "#8 THHN", 0), feet("1-1/4\"") * 8, 100)
               /\ \A g \in DOMAIN wire : wire[g] > 0 \/ g = "#8 THHN"

\* a step that consults a source: the AI for E200 and the device estimate
\* only while the combined lengths are empty, the AI for E201 only right
\* after an E200 call that did not fail
ConsultedOnlyWhenEmpty ==
    consulted' # consulted =>
        LET source == consulted'[Len(consulted')]
        IN  /\ Len(consulted') = Len(consulted) + 1
            /\ source \in {"ai_e200", "device_based"} => DOMAIN combined_conduit = {}
            /\ source = "ai_e201" =>
                    /\ consulted[Len(consulted)] = "ai_e200"
                    /\ ~Failed(ai_e200)

\* C28: analyze_routing_complete consults its sources in the order PDF
\* vectors, AI vision (E200 before E201), device-based estimation; a later
\* source is consulted only if the earlier ones left the combined lengths
\* empty; the E201 call is not made when the E200 call failed; and on
\* return conduit_by_size is non-empty, estimated_method names the source
\* that produced it and wire_by_size is the wire of the returned lengths.
C28_SourcesInFixedOrder ==
    [](InSourceOrder /\ ReturnedFromProducer) /\ [][ConsultedOnlyWhenEmpty]_vars

\* the vector pages gave nothing, the E200 call returned an empty dict and
\* the E201 call 40 feet: all three were consulted and the AI is named
C28_Witness ==
    /\ pc = "routing_returned"
    /\ consulted = <<"pdf_vectors", "ai_e200", "ai_e201">>
    /\ routing = [conduit_by_size |-> ("3/4\"" :> Number(40)),
                  wire_by_size |-> ("#12 THHN" :> 92),
                  estimated_method |-> "ai_vision"]

\* 100 feet from the E200 call: the float product 100 * 2.3 gives 229 feet
\* of wire
C28_WitnessLongRun ==
    /\ pc = "routing_returned"
    /\ consulted = <<"pdf_vectors", "ai_e200", "ai_e201">>
    /\ routing.conduit_by_size = ("3/4\"" :> Number(100))
    /\ routing.wire_by_size = ("#12 THHN" :> 229)

\* the E200 call raised: the E201 call was not made
C28_WitnessFailure ==
    /\ pc = "routing_returned"
    /\ use_ai /\ ai_e200.raised /\ ~ai_e201.raised
    /\ consulted = <<"ai_e200", "device_based">>
    /\ routing.estimated_method = "device_based"
    /\ routing.wire_by_size =
            ("#14 THHN" :> 180 @@ "#12 THHN" :> 1265 @@ "#10 THHN" :> 2520 @@ "#8 THHN" :> 8)

\* the E200 answer held 100 feet and then a null: the merge raised after the
\* 100 feet, the E201 call and the device estimate were not made, and the
\* 100 feet are returned under ai_vision
C28_WitnessPartialAnswer ==
    /\ pc = "routing_returned"
    /\ ai_e200 = AiAnswer(<<<<"3/4\"", Number(100)>>, <<"1\"", JsonNull>>>>)
    /\ ~Failed(ai_e201)
    /\ consulted = <<"ai_e200">>
    /\ routing = [conduit_by_size |-> ("3/4\"" :> Number(100)),
                  wire_by_size |-> ("#12 THHN" :> 229),
                  estimated_method |-> "ai_vision"]

\* the E200 answer began with a null: nothing was merged and the device
\* estimate is returned
C28_WitnessNullFirst ==
    /\ pc = "routing_returned"
    /\ ai_e200 = AiAnswer(<<<<"1\"", JsonNull>>, <<"3/4\"", Number(40)>>>>)
    /\ consulted = <<"ai_e200", "device_based">>
    /\ routing.estimated_method = "device_based"

\* the E201 answer held 60 feet and then a null after an E200 answer of 40
\* feet: both parts are returned
C28_WitnessPartialSecondAnswer ==
    /\ pc = "routing_returned"
    /\ consulted = <<"ai_e200", "ai_e201">>
    /\ routing.conduit_by_size = ("3/4\"" :> Number(40)) @@ ("1\"" :> Number(60))
    /\ routing.wire_by_size = ("#12 THHN" :> 92) @@ ("#10 THHN" :> 504)
    /\ routing.estimated_method = "ai_vision"

\* an infinite length of 3/4" conduit: the wire calculation raised,
\* analyze_routing_complete returned nothing, and the caller fell back to the
\* device estimate without wire
C28_WitnessWireRaised ==
    /\ pc = "routing_recovered"
    /\ combined_conduit = ("3/4\"" :> Infinity)
    /\ routing.estimated_method = "device_based"
    /\ routing.conduit_by_size["3/4\""] = Number(550)
    /\ routing.wire_by_size = EmptyDict

\* an infinite length of 2" conduit, a size the wire calculation does not
\* read, is returned
C28_WitnessInfiniteReturned ==
    /\ pc = "routing_returned"
    /\ "2\"" \in DOMAIN routing.conduit_by_size
    /\ routing.conduit_by_size["2\""] = Infinity
    /\ routing.wire_by_size = ("#12 THHN" :> 92)

\* the vectors produced the lengths: no other source was consulted
C28_WitnessVectors ==
    /\ pc = "routing_returned"
    /\ use_ai
    /\ consulted = <<"pdf_vectors">>
    /\ routing = [conduit_by_size |-> ("3/4\"" :> Number(10)),
                  wire_by_size |-> ("#12 THHN" :> 23),
                  estimated_method |-> "pdf_vectors"]

-----------------------------------------------------------------------------
(* Classification of a drawing set                                          *)

StartsWith(s, prefix) ==
    Len(s) >= Len(prefix) /\ SubSeq(s, 1, Len(prefix)) = prefix

\* the code has no numeric block: what follows its first character is not
\* a string of digits
NonNumeric(s) == \E i \in 2..Len(s) : s[i] \notin Digits

OneSheetPerPageInOrder ==
    pc = "pages_classified" =>
        /\ Len(sheets) = Len(image_paths)
        /\ DOMAIN sheets = 1..Len(image_paths)
        /\ \A i \in DOMAIN sheets :
              /\ sheets[i].page_number = i
              /\ sheets[i].image_path = image_paths[i]

UnmappedPageIsPlaceholder ==
    pc = "pages_classified" =>
        \A i \in 1..Len(image_paths) :
            i > 11 =>
                /\ sheets[i].sheet_type = "REFERENCE"
                /\ StartsWith(sheets[i].sheet_number, <<"U", "N", "K", "N", "O", "W", "N">>)

UnreadableCodeIsReference ==
    pc = "classified" =>
        ((Len(sheet_number) < 2 \/ NonNumeric(sheet_number)) => sheet_type = "REFERENCE")

\* what the code does: REFERENCE for a code of fewer than two characters and
\* for one whose tail int() rejects; a tail with a sign, surrounding
\* whitespace or underscores between digits is parsed and classified by range
UnparsedCodeIsReference ==
    pc = "classified" =>
        ((Len(sheet_number) < 2 \/ ~IntParses(Tail(sheet_number))) =>
            sheet_type = "REFERENCE")

\* a code with a minus sign after the letter is classified LEGEND
SignedCodeIsLegend ==
    /\ pc = "classified"
    /\ sheet_number = <<"E", "-", "5">>
    /\ sheet_type = "LEGEND"

\* C23: for any list of pages classify_pages returns one Sheet per page, in
\* page order; a page the sheet map does not cover gets a Sheet of role
\* REFERENCE whose code is an "UNKNOWN" placeholder; and
\* classify_sheet_number returns REFERENCE for an empty, a one-character and
\* a non-numeric sheet code.
C23_ClassificationNeverAborts ==
    /\ OneSheetPerPageInOrder
    /\ UnmappedPageIsPlaceholder
    /\ UnreadableCodeIsReference

\* a set of twelve pages: the twelfth is the placeholder UNKNOWN-12
C23_Witness ==
    /\ pc = "pages_classified"
    /\ Len(image_paths) = 12
    /\ image_paths[12] = "scan.png"
    /\ sheets[12].sheet_number = <<"U", "N", "K", "N", "O", "W", "N", "-", "1", "2">>
    /\ sheets[12].sheet_type = "REFERENCE"
    /\ sheets[11].sheet_number = <<"T", "4", "0", "0">>

\* a code whose numeric block is cut short by a letter
C23_WitnessNonNumeric ==
    /\ pc = "classified"
    /\ sheet_number = <<"E", "1", "T">>
    /\ sheet_type = "REFERENCE"

\* C24: for every page classify_pages resolves through IVCC_SHEET_MAP, the
\* role stored in the returned Sheet is the role classify_sheet_number
\* gives for that Sheet's code.
C24_RoleFromNumericBlock ==
    pc = "pages_classified" =>
        \A i \in DOMAIN sheets \cap DOMAIN IVCC_SHEET_MAP :
            sheets[i].sheet_type = classify_sheet_number(sheets[i].sheet_number)

\* the first nine pages of the map follow the ranges
MappedRolesFollowRangesToT200 ==
    pc = "pages_classified" =>
        \A i \in DOMAIN sheets \cap 1..9 :
            sheets[i].sheet_type = classify_sheet_number(sheets[i].sheet_number)

-----------------------------------------------------------------------------
(* Sheet map of the project configuration                                   *)

SheetMapUpdated == pc' \in {"sheet_map_updated", "sheet_map_reapplied"}

\* a call keeps every entry the map had and adds exactly the detected
\* sheets whose code was absent
UpdateKeepsEntries ==
    SheetMapUpdated =>
        /\ \A k \in DOMAIN sheet_map :
              k \in DOMAIN sheet_map' /\ sheet_map'[k] = sheet_map[k]
        /\ \A k \in DOMAIN sheet_map' \ DOMAIN sheet_map :
              k \in DOMAIN detected_map' /\ sheet_map'[k] = detected_map'[k]
        /\ DOMAIN detected_map' \subseteq DOMAIN sheet_map'

\* the same detected map a second time changes nothing
SecondApplicationIsNoOp == pc' = "sheet_map_reapplied" => sheet_map' = sheet_map

SheetMapPreserved == [][UpdateKeepsEntries /\ SecondApplicationIsNoOp]_vars

\* the page a lookup has to return: the mapped page of a mapped code, the
\* default of an unmapped code of the defaults table, -1 otherwise
ExpectedSheetPage ==
    IF sheet_query \in DOMAIN sheet_map THEN sheet_map[sheet_query]
    ELSE IF Upper(sheet_query) \in DOMAIN DefaultSheetPages
         THEN DefaultSheetPages[Upper(sheet_query)]
    ELSE -1

MappedCodeGetsMappedPage ==
    pc = "sheet_page_returned" => sheet_page = ExpectedSheetPage

\* the lookup of a code written in upper case
UpperCaseCodeGetsMappedPage ==
    (pc = "sheet_page_returned" /\ sheet_query = Upper(sheet_query)) =>
        sheet_page = ExpectedSheetPage

\* C27: after any sequence of update_sheet_map calls every sheet code that
\* was in sheet_map before a call keeps its page index, a detected sheet is
\* added only if its code was absent, and the same detected map applied
\* twice gives what it gives applied once; get_sheet_page returns the mapped
\* page for a mapped code, the conventional default for an unmapped known
\* code and -1 otherwise.
C27_ManualOverridesPreserved ==
    /\ SheetMapPreserved
    /\ []MappedCodeGetsMappedPage

\* an override survives a detection that found the same sheet elsewhere
OverrideKept ==
    /\ pc = "sheet_map_reapplied"
    /\ SheetE200 \in DOMAIN sheet_map /\ sheet_map[SheetE200] = 2
    /\ SheetE200 \in DOMAIN detected_map /\ detected_map[SheetE200] = 7
    /\ SheetT200 \in DOMAIN sheet_map /\ sheet_map[SheetT200] = 7

-----------------------------------------------------------------------------
(* Pendant totals                                                           *)

\* the floor pages that are read, and over them the words that are a drawn
\* token
BareTagsRead(token) ==
    LET read == {k \in DOMAIN floor_pages : ~OutOfRange(pdf_pages, floor_pages[k])}
        words(k) == PageAt(pdf_pages, floor_pages[k]).words
    IN  SumValues([k \in read |->
                      Cardinality({i \in DOMAIN words(k) : words(k)[i].text = token.text})])

RawF10Total == BareTagsRead(TokenFF1100) + BareTagsRead(TokenSizedF10)
RawF11Total == BareTagsRead(TokenFF1111)

\* no tag with its size stands on the pages read, in one word or in several
NoSizeFound ==
    /\ BareTagsRead(TokenSizedF10) = 0
    /\ BareTagsRead(TokenSizedF11) = 0
    /\ BareTagsRead(SplitSizedF10[1]) = 0
    /\ BareTagsRead(SplitSizedF11[1]) = 0

F10Sum == pendants["F10-22"] + pendants["F10-30"]

F11Sum ==
    pendants["F11-4X4"] + pendants["F11-6X6"] + pendants["F11-8X8"]
        + pendants["F11-10X10"] + pendants["F11-16X10"]

\* the call has returned
PendantsReturned == pc = "pendants_counted" /\ ~pendants_raised

F10TotalKept ==
    (PendantsReturned /\ NoSizeFound /\ RawF10Total >= 1) => F10Sum = RawF10Total

F11TotalKept ==
    (PendantsReturned /\ NoSizeFound /\ RawF11Total >= 1) => F11Sum = RawF11Total

\* from five bare F11 tags on the total is kept; below, each of the five
\* sizes is raised to one
F11TotalKeptFromFive ==
    (PendantsReturned /\ NoSizeFound /\ RawF11Total >= 1) =>
        F11Sum = Max(5, RawF11Total)

\* C29: when no size-specific pendant tag is found the raw totals are
\* distributed across the sizes without changing the total: for every
\* f10_total >= 1, F10-22 + F10-30 = f10_total, and for every
\* f11_total >= 1, the five F11 sizes add up to f11_total.
C29_DistributionKeepsTotals == F10TotalKept /\ F11TotalKept

\* seven bare F11 tags and five bare F10 tags, distributed
PendantsDistributed ==
    /\ PendantsReturned
    /\ NoSizeFound
    /\ RawF11Total = 7 /\ RawF10Total = 5
    /\ pendants["F10-22"] = 3 /\ pendants["F10-30"] = 2
    /\ pendants["F11-4X4"] = 2 /\ pendants["F11-16X10"] = 2

\* a size written in two words is found, and the totals are not distributed
SizeFoundAcrossWords ==
    /\ PendantsReturned
    /\ BareTagsRead(SplitSizedF10[1]) = 1
    /\ BareTagsRead(TokenFF1100) = 5
    /\ pendants["F10-22"] = 1 /\ pendants["F10-30"] = 0

\* a floor whose page cannot be read makes the call raise
PendantsRaised ==
    /\ pc = "pendants_counted"
    /\ pendants_raised
    /\ pendants = EmptyDict

-----------------------------------------------------------------------------
(* Boxes and blank covers                                                   *)

WallDeviceLocations ==
    rule_args.duplex + rule_args.gfi + rule_args.sp_switches + rule_args.three_way
        + rule_args.dimmers + rule_args.wall_sensors

CeilingDeviceLocations == rule_args.ceiling_sensors + rule_args.daylight_sensors

\* C30: for all non-negative device counts derive_boxes returns bracket
\* boxes + deep boxes = duplex + GFI + switches + dimmers + wall sensors and
\* plain 4" square boxes = ceiling sensors + daylight sensors, and
\* derive_plates returns Blank Cover + Blank Cover w/KO = blank_boxes.
C30_BoxesConserveDeviceLocations ==
    /\ pc = "boxes_derived" =>
          /\ rule_result["4\" Square Box w/bracket"]
                + rule_result["4\" Square Box 2-1/8\" deep"] = WallDeviceLocations
          /\ rule_result["4\" Square Box"] = CeilingDeviceLocations
    /\ pc = "plates_derived" =>
          rule_result["Blank Cover"] + rule_result["Blank Cover w/KO"]
              = rule_args.blank_boxes

\* 57 wall devices: 52 bracket boxes and 5 deep boxes, 5 ceiling boxes
C30_Witness ==
    /\ pc = "boxes_derived"
    /\ WallDeviceLocations = 57
    /\ rule_result["4\" Square Box w/bracket"] = 52
    /\ rule_result["4\" Square Box 2-1/8\" deep"] = 5
    /\ rule_result["4\" Square Box"] = 5

\* ten blank boxes: seven covers and three covers with knockout
C30_WitnessBlank ==
    /\ pc = "plates_derived"
    /\ rule_args.blank_boxes = 10
    /\ rule_result["Blank Cover"] = 7
    /\ rule_result["Blank Cover w/KO"] = 3

-----------------------------------------------------------------------------
(* Signs of the quantities                                                  *)

NonNegative(d) == \A k \in DOMAIN d : d[k] \in Nat

ExtractedNonNegative ==
    /\ pc = "controls_extracted" => NonNegative(extracted)
    /\ (pc = "demo_extracted" /\ floor_count >= 1) =>
          ~extract_raised /\ NonNegative(extracted)

\* C25: for non-negative raw match counts and floor multiplicity >= 1 every
\* count returned by extract_controls, by extract_demo_items on its keynote
\* path and on its fallback path, and by count_pendants_from_floor_plans is
\* a non-negative integer, and so is every quantity derive_all_materials
\* returns for non-negative counts and lengths.
C25_QuantitiesNonNegative ==
    /\ ExtractedNonNegative
    /\ pc = "pendants_counted" => NonNegative(pendants)
    /\ pc = "derived" => NonNegative(derived)

\* the fallback path on two floors, with nothing below zero
C25_Witness ==
    /\ pc = "demo_extracted"
    /\ FallbackTaken
    /\ NonNegative(extracted)
    /\ extracted["Demo Floor Box"] = 1

\* one bare F10 tag: one short pendant and no long one
C25_WitnessPendants ==
    /\ PendantsReturned
    /\ NoSizeFound /\ RawF10Total = 1
    /\ pendants["F10-22"] = 1 /\ pendants["F10-30"] = 0

\* a derivation with fittings and wire
C25_WitnessDerived ==
    /\ pc = "derived"
    /\ include_fittings /\ include_wire /\ include_consumables
    /\ ~conduit_lengths.none /\ SumValues(conduit_lengths.items) = 80
    /\ derived["Duplex Plate"] = 16
    /\ NonNegative(derived)

=============================================================================
